---- MODULE Spec2Model ----
(***************************************************************************)
(* Model of the ingestion and pre-classification pipeline of CSRF Shield   *)
(* AI: the HAR parser (src/input/har_parser.py), session-flow              *)
(* reconstruction (src/input/flow_reconstructor.py), auth mechanism        *)
(* detection and the short-circuit result builder                          *)
(* (src/input/auth_detector.py) and the analyze command (src/main.py).     *)
(*                                                                         *)
(* Strings that the code inspects character by character (cookie names,    *)
(* header names, header values, patterns) are sequences of one-character   *)
(* strings.  Cookie values / session ids are only compared for equality    *)
(* and concatenated; they are tuples of parts, so that the f-string        *)
(* "no-session-<hex>" is <<"no-session-", hex>>.                           *)
(***************************************************************************)
EXTENDS Integers, Sequences, FiniteSets, TLC

(***************************************************************************)
(* Bounds of the model.                                                    *)
(***************************************************************************)
MaxExchanges == 3      \* longest input exchange list of reconstruct_flows
MaxFlowLen == 3        \* longest exchange list of a directly built flow
MaxAnalyze == 2        \* longest parsed exchange list given to analyze
MaxTime == 2           \* timestamps are the instants 1..MaxTime
NumUuid == 2           \* distinct outcomes of uuid4().hex[:8]
MaxEntries == 2        \* longest log.entries array of a parsed document
MaxItems == 3          \* longest header or cookie array of a request

(***************************************************************************)
(* Python primitives.                                                      *)
(***************************************************************************)
None == "None"

UpperToLower ==
  [A |-> "a", B |-> "b", C |-> "c", D |-> "d", E |-> "e", F |-> "f",
   G |-> "g", H |-> "h", I |-> "i", J |-> "j", K |-> "k", L |-> "l",
   M |-> "m", N |-> "n", O |-> "o", P |-> "p", Q |-> "q", R |-> "r",
   S |-> "s", T |-> "t", U |-> "u", V |-> "v", W |-> "w", X |-> "x",
   Y |-> "y", Z |-> "z"]

\* str.lower() on one character
lower_char(c) == IF c \in DOMAIN UpperToLower THEN UpperToLower[c] ELSE c

\* str.lower()
lower(s) == [i \in 1..Len(s) |-> lower_char(s[i])]

\* the Python expression  `sub in s`  on strings
str_in(sub, s) ==
  \E i \in 0..(Len(s) - Len(sub)) : SubSeq(s, i + 1, i + Len(sub)) = sub

\* Optional[List[str]]: None, or a list
NoList == [given |-> FALSE, list |-> <<>>]

ListArg(l) == [given |-> TRUE, list |-> l]

\* the Python expression  `x or default`  on an optional list
or_default(x, default) ==
  IF ~x.given \/ x.list = <<>> THEN default ELSE x.list

(***************************************************************************)
(* Module constants of the source.                                         *)
(***************************************************************************)
DEFAULT_SESSION_COOKIE_PATTERNS ==
  << <<"s","e","s","s","i","o","n">>, <<"s","i","d">>, <<"a","u","t","h">> >>

DEFAULT_AUTH_HEADERS ==
  << <<"A","u","t","h","o","r","i","z","a","t","i","o","n">>,
     <<"X","-","A","P","I","-","K","e","y">>,
     <<"X","-","A","u","t","h","-","T","o","k","e","n">>,
     <<"A","p","i","-","K","e","y">>,
     <<"X","-","A","c","c","e","s","s","-","T","o","k","e","n">> >>

SHORT_CIRCUIT_SCORE == 5

AuthMechanism == {"cookie", "header_only", "mixed", "none"}

(***************************************************************************)
(* Data model (src/input/models.py).  A dict is the sequence of its items  *)
(* in insertion order; `id` is the identity of the exchange object.        *)
(***************************************************************************)
HttpExchange(id, method, url, headers, cookies, timestamp) ==
  [id |-> id, request_method |-> method, request_url |-> url,
   request_headers |-> headers, request_cookies |-> cookies,
   timestamp |-> timestamp]

SessionFlow(session_id, exchangeList, auth_mechanism) ==
  [session_id |-> session_id, exchanges |-> exchangeList,
   auth_mechanism |-> auth_mechanism]

\* Optional[HttpExchange]: None is the empty tuple, an exchange e is <<e>>
NoExchange == <<>>

SomeExchange(e) == <<e>>

\* a datetime: the instant t, timezone-aware or naive
Datetime(t, aware) == [t |-> t, aware |-> aware]

(***************************************************************************)
(* flow_reconstructor.py                                                   *)
(***************************************************************************)
RECURSIVE any_pattern_in(_, _, _)
\* inner loop of _identify_session: `for pattern in patterns` from index j
any_pattern_in(patterns, cookie_name_lower, j) ==
  IF j > Len(patterns) THEN FALSE
  ELSE IF str_in(lower(patterns[j]), cookie_name_lower) THEN TRUE
  ELSE any_pattern_in(patterns, cookie_name_lower, j + 1)

\* the fallback id  f"no-session-{uuid.uuid4().hex[:8]}"
fallback_id(hex) == <<"no-session-", hex>>

RECURSIVE cookie_with_pattern(_, _, _)
\* first cookie, from index k, whose name contains the one given pattern
cookie_with_pattern(cookies, pattern, k) ==
  IF k > Len(cookies) THEN 0
  ELSE IF str_in(lower(pattern), lower(cookies[k].name)) THEN k
  ELSE cookie_with_pattern(cookies, pattern, k + 1)

RECURSIVE identify_pattern_major(_, _, _, _)
\* variant of _identify_session that loops over the patterns first
identify_pattern_major(cookies, patterns, j, hex) ==
  IF j > Len(patterns) THEN fallback_id(hex)
  ELSE IF cookie_with_pattern(cookies, patterns[j], 1) # 0
       THEN cookies[cookie_with_pattern(cookies, patterns[j], 1)].value
       ELSE identify_pattern_major(cookies, patterns, j + 1, hex)

identify_session_pattern_major(exchange, patterns, hex) ==
  identify_pattern_major(exchange.request_cookies, patterns, 1, hex)

RECURSIVE identify_from(_, _, _, _)
\* outer loop of _identify_session: cookies from index k, in dict order
identify_from(cookies, patterns, k, hex) ==
  IF k > Len(cookies) THEN fallback_id(hex)
  ELSE IF any_pattern_in(patterns, lower(cookies[k].name), 1)
       THEN cookies[k].value
       ELSE identify_from(cookies, patterns, k + 1, hex)

\* variant of _identify_session that gives up after the first cookie
identify_session_first_cookie_only(exchange, patterns, hex) ==
  IF exchange.request_cookies # <<>>
     /\ any_pattern_in(patterns, lower(exchange.request_cookies[1].name), 1)
  THEN exchange.request_cookies[1].value
  ELSE fallback_id(hex)

\* _identify_session(exchange, patterns); hex is the uuid4 outcome
identify_session(exchange, patterns, hex) ==
  identify_from(exchange.request_cookies, patterns, 1, hex)

\* the session ids computed by the grouping loop, one per input exchange
session_ids(exchangeList, patterns, uuids) ==
  [i \in 1..Len(exchangeList) |->
     identify_session(exchangeList[i], patterns, uuids[i])]

\* variant of the grouping step that only extends the most recent group
group_append_consecutive(groups, session_id, exchange) ==
  IF groups # <<>> /\ groups[Len(groups)].key = session_id
  THEN [groups EXCEPT ![Len(groups)].members = Append(@, exchange)]
  ELSE Append(groups, [key |-> session_id, members |-> <<exchange>>])

\* variant of the grouping step that overwrites the group's list
group_append_overwrite(groups, session_id, exchange) ==
  IF \E g \in 1..Len(groups) : groups[g].key = session_id
  THEN [g \in 1..Len(groups) |->
          IF groups[g].key = session_id
          THEN [groups[g] EXCEPT !.members = <<exchange>>]
          ELSE groups[g]]
  ELSE Append(groups, [key |-> session_id, members |-> <<exchange>>])

\* groups[session_id].append(exchange) on an insertion-ordered dict
group_append(groups, session_id, exchange) ==
  IF \E g \in 1..Len(groups) : groups[g].key = session_id
  THEN [g \in 1..Len(groups) |->
          IF groups[g].key = session_id
          THEN [groups[g] EXCEPT !.members = Append(@, exchange)]
          ELSE groups[g]]
  ELSE Append(groups, [key |-> session_id, members |-> <<exchange>>])

RECURSIVE group_exchanges(_, _, _)
\* the grouping loop over the first n exchanges
group_exchanges(exchangeList, ids, n) ==
  IF n = 0 THEN <<>>
  ELSE group_append(group_exchanges(exchangeList, ids, n - 1),
                    ids[n], exchangeList[n])

\* comparing an offset-naive with an offset-aware datetime raises TypeError;
\* a sort of two or more keys compares across the two kinds when both occur
sort_raises(keys) ==
  \E i, j \in 1..Len(keys) : keys[i].aware # keys[j].aware

\* variant of the insertion that puts an item before the items of equal key
insert_sorted_before_equal(sortedItems, sortedKeys, item, key) ==
  LET k == Cardinality({i \in 1..Len(sortedKeys) : sortedKeys[i].t < key.t})
  IN  [items |-> SubSeq(sortedItems, 1, k) \o <<item>>
                   \o SubSeq(sortedItems, k + 1, Len(sortedItems)),
       keys  |-> SubSeq(sortedKeys, 1, k) \o <<key>>
                   \o SubSeq(sortedKeys, k + 1, Len(sortedKeys))]

\* stable insertion of item (with key) into a list sorted by key
insert_sorted(sortedItems, sortedKeys, item, key) ==
  LET k == Cardinality({i \in 1..Len(sortedKeys) : sortedKeys[i].t <= key.t})
  IN  [items |-> SubSeq(sortedItems, 1, k) \o <<item>>
                   \o SubSeq(sortedItems, k + 1, Len(sortedItems)),
       keys  |-> SubSeq(sortedKeys, 1, k) \o <<key>>
                   \o SubSeq(sortedKeys, k + 1, Len(sortedKeys))]

RECURSIVE sort_prefix(_, _, _)
sort_prefix(items, keys, n) ==
  IF n = 0 THEN [items |-> <<>>, keys |-> <<>>]
  ELSE LET s == sort_prefix(items, keys, n - 1)
       IN  insert_sorted(s.items, s.keys, items[n], keys[n])

\* sorted(items, key=...) / list.sort(key=...): stable, ascending
sorted_by(items, keys) == sort_prefix(items, keys, Len(items)).items

exchange_timestamps(exchangeList) ==
  [i \in 1..Len(exchangeList) |-> exchangeList[i].timestamp]

\* variant of the flow-building loop that classifies a group with cookies
build_flows_classified(groups) ==
  [g \in 1..Len(groups) |->
     SessionFlow(groups[g].key,
                 sorted_by(groups[g].members,
                           exchange_timestamps(groups[g].members)),
                 IF \E k \in 1..Len(groups[g].members) :
                      groups[g].members[k].request_cookies # <<>>
                 THEN "cookie" ELSE "none")]

\* the flow-building loop: one SessionFlow per group, exchanges sorted
build_flows(groups) ==
  [g \in 1..Len(groups) |->
     SessionFlow(groups[g].key,
                 sorted_by(groups[g].members,
                           exchange_timestamps(groups[g].members)),
                 "none")]

\* variant of reconstruct_flows that leaves the flows in group order
sort_flows_unsorted(flowList) == flowList

\* flows.sort(key=lambda f: f.exchanges[0].timestamp)
sort_flows(flowList) ==
  sorted_by(flowList, [g \in 1..Len(flowList) |->
                         flowList[g].exchanges[1].timestamp])

\* reconstruct_flows(exchanges, cookie_patterns); uuids[i] is the uuid4
\* outcome available to the i-th _identify_session call.  The result is
\* the returned list, or the exception that leaves the function.
reconstruct_flows(exchangeList, cookie_patterns, uuids) ==
  IF exchangeList = <<>> THEN [exc |-> None, value |-> <<>>]
  ELSE
    LET patterns == or_default(cookie_patterns, DEFAULT_SESSION_COOKIE_PATTERNS)
        ids == session_ids(exchangeList, patterns, uuids)
        groups == group_exchanges(exchangeList, ids, Len(exchangeList))
        flowList == build_flows(groups)
    IN  IF \E g \in 1..Len(groups) :
             sort_raises(exchange_timestamps(groups[g].members))
        THEN [exc |-> "TypeError", value |-> <<>>]
        ELSE IF sort_raises([g \in 1..Len(flowList) |->
                               flowList[g].exchanges[1].timestamp])
        THEN [exc |-> "TypeError", value |-> <<>>]
        ELSE [exc |-> None, value |-> sort_flows(flowList)]

(***************************************************************************)
(* auth_detector.py                                                        *)
(***************************************************************************)
RECURSIVE pattern_in_cookie(_, _, _)
\* inner loop of _has_session_cookie: `for pattern in patterns` from j
pattern_in_cookie(patterns, cookie_lower, j) ==
  IF j > Len(patterns) THEN FALSE
  ELSE IF str_in(lower(patterns[j]), cookie_lower) THEN TRUE
  ELSE pattern_in_cookie(patterns, cookie_lower, j + 1)

RECURSIVE session_cookie_from(_, _, _)
\* outer loop of _has_session_cookie: cookie names from index k
session_cookie_from(cookies, patterns, k) ==
  IF k > Len(cookies) THEN FALSE
  ELSE IF pattern_in_cookie(patterns, lower(cookies[k].name), 1) THEN TRUE
  ELSE session_cookie_from(cookies, patterns, k + 1)

\* _has_session_cookie(exchange, patterns)
has_session_cookie(exchange, patterns) ==
  session_cookie_from(exchange.request_cookies, patterns, 1)

\* keys of {k.lower(): v for k, v in exchange.request_headers.items()}
request_headers_lower(exchange) ==
  {lower(exchange.request_headers[i].name) :
     i \in 1..Len(exchange.request_headers)}

RECURSIVE auth_header_from(_, _, _)
\* loop of _has_auth_header: `for header in auth_headers` from index j
auth_header_from(headers_lower, auth_headers, j) ==
  IF j > Len(auth_headers) THEN FALSE
  ELSE IF lower(auth_headers[j]) \in headers_lower THEN TRUE
  ELSE auth_header_from(headers_lower, auth_headers, j + 1)

\* _has_auth_header(exchange, auth_headers)
has_auth_header(exchange, auth_headers) ==
  auth_header_from(request_headers_lower(exchange), auth_headers, 1)

RECURSIVE detect_scan_break_on_any(_, _, _, _, _, _)
\* variant of the scan that stops as soon as either kind of evidence is found
detect_scan_break_on_any(exchangeList, patterns, headers, k, has_cookies, has_auth_headers) ==
  IF k > Len(exchangeList)
  THEN [has_cookies |-> has_cookies, has_auth_headers |-> has_auth_headers]
  ELSE
    LET hc == IF ~has_cookies
              THEN has_session_cookie(exchangeList[k], patterns)
              ELSE has_cookies
        ha == IF ~has_auth_headers
              THEN has_auth_header(exchangeList[k], headers)
              ELSE has_auth_headers
    IN  IF hc \/ ha
        THEN [has_cookies |-> hc, has_auth_headers |-> ha]
        ELSE detect_scan_break_on_any(exchangeList, patterns, headers,
                                      k + 1, hc, ha)

RECURSIVE detect_scan_stop_on_cookie(_, _, _, _, _, _)
\* variant of the scan that stops as soon as a session cookie is found
detect_scan_stop_on_cookie(exchangeList, patterns, headers, k, has_cookies, has_auth_headers) ==
  IF k > Len(exchangeList)
  THEN [has_cookies |-> has_cookies, has_auth_headers |-> has_auth_headers]
  ELSE
    LET hc == IF ~has_cookies
              THEN has_session_cookie(exchangeList[k], patterns)
              ELSE has_cookies
        ha == IF ~has_auth_headers
              THEN has_auth_header(exchangeList[k], headers)
              ELSE has_auth_headers
    IN  IF hc
        THEN [has_cookies |-> hc, has_auth_headers |-> ha]
        ELSE detect_scan_stop_on_cookie(exchangeList, patterns, headers,
                                        k + 1, hc, ha)

RECURSIVE detect_scan(_, _, _, _, _, _)
\* `for exchange in flow.exchanges` from index k, with the early exit
detect_scan(exchangeList, patterns, headers, k, has_cookies, has_auth_headers) ==
  IF k > Len(exchangeList)
  THEN [has_cookies |-> has_cookies, has_auth_headers |-> has_auth_headers]
  ELSE
    LET hc == IF ~has_cookies
              THEN has_session_cookie(exchangeList[k], patterns)
              ELSE has_cookies
        ha == IF ~has_auth_headers
              THEN has_auth_header(exchangeList[k], headers)
              ELSE has_auth_headers
    IN  IF hc /\ ha
        THEN [has_cookies |-> hc, has_auth_headers |-> ha]
        ELSE detect_scan(exchangeList, patterns, headers, k + 1, hc, ha)

\* detect_auth_mechanism(flow, cookie_patterns, auth_headers)
detect_auth_mechanism(flow, cookie_patterns, auth_headers) ==
  LET patterns == or_default(cookie_patterns, DEFAULT_SESSION_COOKIE_PATTERNS)
      headers == or_default(auth_headers, DEFAULT_AUTH_HEADERS)
      found == detect_scan(flow.exchanges, patterns, headers, 1, FALSE, FALSE)
  IN  IF found.has_cookies /\ found.has_auth_headers THEN "mixed"
      ELSE IF found.has_cookies THEN "cookie"
      ELSE IF found.has_auth_headers THEN "header_only"
      ELSE "none"

\* variant of update_flow_auth that keeps an earlier classification
update_flow_auth_keep(flow, cookie_patterns, auth_headers) ==
  SessionFlow(flow.session_id, flow.exchanges,
              IF flow.auth_mechanism # "none" THEN flow.auth_mechanism
              ELSE detect_auth_mechanism(flow, cookie_patterns, auth_headers))

\* variant of update_flow_auth that never takes MIXED back
update_flow_auth_sticky_mixed(flow, cookie_patterns, auth_headers) ==
  SessionFlow(flow.session_id, flow.exchanges,
              IF flow.auth_mechanism = "mixed" THEN "mixed"
              ELSE detect_auth_mechanism(flow, cookie_patterns, auth_headers))

\* update_flow_auth(flow, cookie_patterns, auth_headers)
update_flow_auth(flow, cookie_patterns, auth_headers) ==
  SessionFlow(flow.session_id, flow.exchanges,
              detect_auth_mechanism(flow, cookie_patterns, auth_headers))

EVIDENCE_VALUE_LIMIT == 50

\* variant of the truncation that also cuts a value of exactly 50 characters
display_value_at_limit(req_value) ==
  IF Len(req_value) >= EVIDENCE_VALUE_LIMIT
  THEN SubSeq(req_value, 1, EVIDENCE_VALUE_LIMIT) \o <<".", ".", ".">>
  ELSE req_value

\* req_value[:50] + "..." if len(req_value) > 50 else req_value
display_value(req_value) ==
  IF Len(req_value) > EVIDENCE_VALUE_LIMIT
  THEN SubSeq(req_value, 1, EVIDENCE_VALUE_LIMIT) \o <<".", ".", ".">>
  ELSE req_value

RECURSIVE header_evidence(_, _, _)
\* inner loop of the evidence collection: request header items from k
header_evidence(request_headers, header_name, k) ==
  IF k > Len(request_headers) THEN <<>>
  ELSE (IF lower(request_headers[k].name) = lower(header_name)
        THEN << request_headers[k].name \o <<":", " ">>
                  \o display_value(request_headers[k].value) >>
        ELSE <<>>)
       \o header_evidence(request_headers, header_name, k + 1)

RECURSIVE evidence_parts(_, _)
\* outer loop: `for header_name in DEFAULT_AUTH_HEADERS` from index j
evidence_parts(request_headers, j) ==
  IF j > Len(DEFAULT_AUTH_HEADERS) THEN <<>>
  ELSE header_evidence(request_headers, DEFAULT_AUTH_HEADERS[j], 1)
       \o evidence_parts(request_headers, j + 1)

RECURSIVE join(_, _)
\* sep.join(parts)
join(sep, parts) ==
  IF parts = <<>> THEN <<>>
  ELSE IF Len(parts) = 1 THEN parts[1]
  ELSE parts[1] \o sep \o join(sep, Tail(parts))

\* the fixed evidence text, one part like the ids and values
GENERIC_EVIDENCE == <<"Header-only auth detected">>

\* the exchange created when no representative is provided; now is the
\* outcome of datetime.now(), an offset-naive datetime
placeholder_exchange(now) ==
  HttpExchange(0, "GET", "unknown", <<>>, <<>>, Datetime(now, FALSE))

\* _build_csrf_011_finding(flow, exchange)
build_csrf_011_finding(flow, exchange, now) ==
  LET parts == IF exchange # NoExchange
               THEN evidence_parts(exchange[1].request_headers, 1)
               ELSE <<>>
  IN  [rule_id |-> "CSRF-011",
       rule_name |-> "Non-Cookie Auth (CSRF N/A)",
       severity |-> "INFO",
       description |-> <<"Session '", flow.session_id,
                         "' uses header-only authentication.">>,
       evidence |-> IF parts # <<>> THEN join(<<";", " ">>, parts)
                    ELSE GENERIC_EVIDENCE,
       exchange |-> IF exchange = NoExchange THEN placeholder_exchange(now)
                    ELSE exchange[1]]

\* variant of build_short_circuit_result that reports no finding for a
\* flow without a representative exchange
build_short_circuit_result_no_finding(flow, now) ==
  LET representative == IF flow.exchanges # <<>>
                        THEN SomeExchange(flow.exchanges[1])
                        ELSE NoExchange
  IN  [endpoint |-> IF representative # NoExchange
                    THEN representative[1].request_url ELSE "unknown",
       http_method |-> IF representative # NoExchange
                       THEN representative[1].request_method ELSE "GET",
       risk_score |-> SHORT_CIRCUIT_SCORE,
       risk_level |-> "LOW",
       findings |-> IF representative # NoExchange
                    THEN <<build_csrf_011_finding(flow, representative, now)>>
                    ELSE <<>>,
       recommendations |->
         <<"No action needed - CSRF is not applicable to header-only auth.">>,
       ml_probability |-> None,
       feature_vector |-> None]

\* variant of build_short_circuit_result that takes the last exchange as
\* representative
build_short_circuit_result_last_exchange(flow, now) ==
  LET representative == IF flow.exchanges # <<>>
                        THEN SomeExchange(flow.exchanges[Len(flow.exchanges)])
                        ELSE NoExchange
      csrf_011 == build_csrf_011_finding(flow, representative, now)
  IN  [endpoint |-> IF representative # NoExchange
                    THEN representative[1].request_url ELSE "unknown",
       http_method |-> IF representative # NoExchange
                       THEN representative[1].request_method ELSE "GET",
       risk_score |-> SHORT_CIRCUIT_SCORE,
       risk_level |-> "LOW",
       findings |-> <<csrf_011>>,
       recommendations |->
         <<"No action needed - CSRF is not applicable to header-only auth.">>,
       ml_probability |-> None,
       feature_vector |-> None]

\* build_short_circuit_result(flow)
build_short_circuit_result(flow, now) ==
  LET representative == IF flow.exchanges # <<>>
                        THEN SomeExchange(flow.exchanges[1])
                        ELSE NoExchange
      csrf_011 == build_csrf_011_finding(flow, representative, now)
  IN  [endpoint |-> IF representative # NoExchange
                    THEN representative[1].request_url ELSE "unknown",
       http_method |-> IF representative # NoExchange
                       THEN representative[1].request_method ELSE "GET",
       risk_score |-> SHORT_CIRCUIT_SCORE,
       risk_level |-> "LOW",
       findings |-> <<csrf_011>>,
       recommendations |->
         <<"No action needed - CSRF is not applicable to header-only auth.">>,
       ml_probability |-> None,
       feature_vector |-> None]

(***************************************************************************)
(* main.py: the analyze command                                            *)
(***************************************************************************)
\* variant of the dispatch test that also short-circuits mixed flows
short_circuits_any_header(mechanism) == mechanism \in {"header_only", "mixed"}

\* the dispatch test  `mechanism == AuthMechanism.HEADER_ONLY`
short_circuits(mechanism) == mechanism = "header_only"

\* the report entry of a short-circuited flow
short_circuit_entry(flow, result) ==
  [session_id |-> flow.session_id,
   short_circuited |-> TRUE,
   risk_score |-> result.risk_score,
   risk_level |-> result.risk_level,
   finding |-> IF result.findings # <<>> THEN result.findings[1].rule_id
               ELSE None]

\* the report entry of a flow left to the later phases
queued_entry(flow, mechanism) ==
  [session_id |-> flow.session_id,
   short_circuited |-> FALSE,
   auth_mechanism |-> mechanism,
   exchanges |-> Len(flow.exchanges),
   status |-> "awaiting_phase2"]

\* the document written by json.dump
json_report(resultList) ==
  [flows |-> resultList, total_flows |-> Len(resultList)]

(***************************************************************************)
(* har_parser.py.  A value produced by json.load is a record carrying its  *)
(* Python type; a dict is the sequence of its items.  The text of a        *)
(* startedDateTime is a sequence of tokens: the date-time of an instant t  *)
(* is the token ToString(t), optionally followed by a UTC offset token or  *)
(* by "Z".  A call either returns a value or raises an exception.          *)
(***************************************************************************)
PyNone == [type |-> "NoneType"]

PyStr(s) == [type |-> "str", chars |-> s]

PyInt(n) == [type |-> "int", n |-> n]

PyList(items) == [type |-> "list", items |-> items]

PyDict(items) == [type |-> "dict", items |-> items]

Return(v) == [exc |-> None, value |-> <<v>>]

Raise(e) == [exc |-> e, value |-> <<>>]

\* Optional[str] fields of HttpExchange: None, or a string
NoValue == <<>>

SomeValue(v) == <<v>>

\* bool(v)
truthy(v) ==
  CASE v.type = "NoneType" -> FALSE
    [] v.type = "str" -> v.chars # <<>>
    [] v.type = "int" -> v.n # 0
    [] v.type = "list" -> v.items # <<>>
    [] v.type = "dict" -> v.items # <<>>

\* `k in d` on a dict
has_key(d, k) == \E i \in 1..Len(d.items) : d.items[i].key = k

\* the value stored under a key the dict has
lookup(d, k) ==
  d.items[CHOOSE i \in 1..Len(d.items) : d.items[i].key = k].value

\* d[k] with a string key: KeyError on a dict without the key, TypeError on
\* a str, list, int or None
subscript(d, k) ==
  IF d.type # "dict" THEN Raise("TypeError")
  ELSE IF has_key(d, k) THEN Return(lookup(d, k))
  ELSE Raise("KeyError")

\* d.get(k, default): only a dict has the method
dict_get(d, k, default) ==
  IF d.type # "dict" THEN Raise("AttributeError")
  ELSE Return(IF has_key(d, k) THEN lookup(d, k) ELSE default)

\* the input file: missing, or its bytes.  The bytes are not UTF-8, are not
\* a JSON text, or are the JSON text of `data`
NoFile == [exists |-> FALSE, content |-> "none", data |-> PyNone]

FileOf(content, data) == [exists |-> TRUE, content |-> content, data |-> data]

\* open(path, "r", encoding="utf-8") and json.load(f)
json_load(file) ==
  IF file.content = "not_utf8" THEN Raise("UnicodeDecodeError")
  ELSE IF file.content = "not_json" THEN Raise("JSONDecodeError")
  ELSE Return(file.data)

\* _validate_har(data); version.startswith needs a str
validate_har(data) ==
  IF data.type # "dict" THEN Raise("HarParseError")
  ELSE IF ~has_key(data, "log") THEN Raise("HarParseError")
  ELSE IF lookup(data, "log").type # "dict" THEN Raise("HarParseError")
  ELSE IF ~has_key(lookup(data, "log"), "entries") THEN Raise("HarParseError")
  ELSE IF lookup(lookup(data, "log"), "entries").type # "list"
       THEN Raise("HarParseError")
  ELSE IF has_key(lookup(data, "log"), "version")
          /\ truthy(lookup(lookup(data, "log"), "version"))
          /\ lookup(lookup(data, "log"), "version").type # "str"
       THEN Raise("AttributeError")
  ELSE Return(PyNone)

UtcOffsets == {"+00:00", "+07:00"}

\* datetime.fromisoformat accepts the text (a date-time, with or without a
\* UTC offset)
iso_ok(chars) ==
  /\ Len(chars) \in {1, 2}
  /\ \E t \in 1..MaxTime : chars[1] = ToString(t)
  /\ Len(chars) = 2 => chars[2] \in UtcOffsets

\* datetime.fromisoformat(text) on an accepted text
fromisoformat(chars) ==
  Datetime(CHOOSE t \in 1..MaxTime : chars[1] = ToString(t), Len(chars) = 2)

\* iso_str.replace("Z", "+00:00")
replace_Z(chars) ==
  [i \in 1..Len(chars) |-> IF chars[i] = "Z" THEN "+00:00" ELSE chars[i]]

\* _parse_timestamp(iso_str); now is the reading of datetime.now().
\* fromisoformat raises TypeError on a value that is not a str.
parse_timestamp(iso_str, now) ==
  IF ~truthy(iso_str) THEN Return(Datetime(now, FALSE))
  ELSE IF iso_str.type # "str" THEN Raise("TypeError")
  ELSE IF iso_ok(iso_str.chars) THEN Return(fromisoformat(iso_str.chars))
  ELSE IF iso_ok(replace_Z(iso_str.chars))
       THEN Return(fromisoformat(replace_Z(iso_str.chars)))
  ELSE Return(Datetime(now, FALSE))

\* continue with F on the value of a call that returned
then(r, F(_)) == IF r.exc # None THEN Raise(r.exc) ELSE F(r.value[1])

\* the values a `for item in x` loop visits: the items of a list, the keys
\* of a dict, the characters of a str
elements(x) ==
  CASE x.type = "list" -> x.items
    [] x.type = "dict" -> [i \in 1..Len(x.items) |-> PyStr(<<x.items[i].key>>)]
    [] x.type = "str" -> [i \in 1..Len(x.chars) |-> PyStr(<<x.chars[i]>>)]

\* position of a name in a name->value dict, 0 when it has no such key
index_of(dict, name) ==
  IF \E i \in 1..Len(dict) : dict[i].name = name
  THEN CHOOSE i \in 1..Len(dict) : dict[i].name = name
  ELSE 0

\* item.get(key, "") on a dict
lookup_or_empty(item, key) ==
  IF has_key(item, key) THEN lookup(item, key) ELSE PyStr(<<>>)

\* item.get(key) on a dict
lookup_or_none(item, key) ==
  IF has_key(item, key) THEN lookup(item, key) ELSE PyNone

\* the text of the name or value of a HAR name/value item (strings in the
\* documents considered)
field_text(item, key) == lookup_or_empty(item, key).chars

RECURSIVE extract_headers_last_wins(_, _)
\* variant of the header loop in which a repeated name replaces the value
extract_headers_last_wins(items, n) ==
  IF n = 0 THEN Return(<<>>)
  ELSE
    LET r == extract_headers_last_wins(items, n - 1)
    IN  IF r.exc # None THEN r
        ELSE IF items[n].type # "dict" THEN Raise("AttributeError")
        ELSE
          LET result == r.value[1]
              name == field_text(items[n], "name")
              value == field_text(items[n], "value")
              k == index_of(result, name)
          IN  IF k # 0
              THEN Return([result EXCEPT ![k].value = value])
              ELSE Return(Append(result, [name |-> name, value |-> value]))

RECURSIVE extract_headers_from(_, _)
\* the loop of _extract_headers over the first n items
extract_headers_from(items, n) ==
  IF n = 0 THEN Return(<<>>)
  ELSE
    LET r == extract_headers_from(items, n - 1)
    IN  IF r.exc # None THEN r
        ELSE IF items[n].type # "dict" THEN Raise("AttributeError")
        ELSE
          LET result == r.value[1]
              name == field_text(items[n], "name")
              value == field_text(items[n], "value")
              k == index_of(result, name)
          IN  IF k # 0
              THEN Return([result EXCEPT
                             ![k].value = @ \o <<",", " ">> \o value])
              ELSE Return(Append(result, [name |-> name, value |-> value]))

\* _extract_headers(headers_list)
extract_headers(headers_list) ==
  IF headers_list.type \in {"NoneType", "int"} THEN Raise("TypeError")
  ELSE extract_headers_from(elements(headers_list),
                            Len(elements(headers_list)))

RECURSIVE extract_cookies_keep_empty(_, _)
\* variant of the cookie comprehension that drops only a missing name
extract_cookies_keep_empty(items, n) ==
  IF n = 0 THEN Return(<<>>)
  ELSE
    LET r == extract_cookies_keep_empty(items, n - 1)
    IN  IF r.exc # None THEN r
        ELSE IF items[n].type # "dict" THEN Raise("AttributeError")
        ELSE IF lookup_or_none(items[n], "name").type = "NoneType" THEN r
        ELSE
          LET result == r.value[1]
              name == field_text(items[n], "name")
              value == field_text(items[n], "value")
              k == index_of(result, name)
          IN  IF k # 0
              THEN Return([result EXCEPT ![k].value = value])
              ELSE Return(Append(result, [name |-> name, value |-> value]))

RECURSIVE extract_cookies_from(_, _)
\* the dict comprehension of _extract_cookies over the first n items
extract_cookies_from(items, n) ==
  IF n = 0 THEN Return(<<>>)
  ELSE
    LET r == extract_cookies_from(items, n - 1)
    IN  IF r.exc # None THEN r
        ELSE IF items[n].type # "dict" THEN Raise("AttributeError")
        ELSE IF ~truthy(lookup_or_none(items[n], "name")) THEN r
        ELSE
          LET result == r.value[1]
              name == field_text(items[n], "name")
              value == field_text(items[n], "value")
              k == index_of(result, name)
          IN  IF k # 0
              THEN Return([result EXCEPT ![k].value = value])
              ELSE Return(Append(result, [name |-> name, value |-> value]))

\* _extract_cookies(cookies_list)
extract_cookies(cookies_list) ==
  IF cookies_list.type \in {"NoneType", "int"} THEN Raise("TypeError")
  ELSE extract_cookies_from(elements(cookies_list),
                            Len(elements(cookies_list)))

\* str(v) as urlencode applies it to names and values
py_str(v) ==
  CASE v.type = "str" -> v.chars
    [] v.type = "NoneType" -> <<"N", "o", "n", "e">>
    [] v.type = "int" -> <<ToString(v.n)>>

\* percent escapes of the reserved characters that occur in the inputs
PercentEscapes ==
  ("&" :> <<"%", "2", "6">>) @@ ("=" :> <<"%", "3", "D">>)
  @@ ("+" :> <<"%", "2", "B">>) @@ ("%" :> <<"%", "2", "5">>)
  @@ ("/" :> <<"%", "2", "F">>)

\* urllib.parse.quote_plus on one character: letters and digits are kept
quote_plus_char(c) ==
  IF c = " " THEN <<"+">>
  ELSE IF c \in DOMAIN PercentEscapes THEN PercentEscapes[c]
  ELSE <<c>>

RECURSIVE quote_plus(_)
\* urllib.parse.quote_plus
quote_plus(chars) ==
  IF chars = <<>> THEN <<>>
  ELSE quote_plus_char(Head(chars)) \o quote_plus(Tail(chars))

RECURSIVE urlencode(_)
\* urllib.parse.urlencode on a list of (name, value) pairs
urlencode(pairs) ==
  IF pairs = <<>> THEN <<>>
  ELSE quote_plus(py_str(pairs[1][1])) \o <<"=">>
       \o quote_plus(py_str(pairs[1][2]))
       \o (IF Len(pairs) > 1 THEN <<"&">> \o urlencode(Tail(pairs))
           ELSE <<>>)

RECURSIVE param_pairs(_, _)
\* the list comprehension of _params_fallback over the first n items
param_pairs(items, n) ==
  IF n = 0 THEN Return(<<>>)
  ELSE
    LET r == param_pairs(items, n - 1)
    IN  IF r.exc # None THEN r
        ELSE IF items[n].type # "dict" THEN Raise("AttributeError")
        ELSE IF lookup_or_none(items[n], "name").type = "NoneType" THEN r
        ELSE Return(Append(r.value[1],
                           <<lookup_or_empty(items[n], "name"),
                             lookup_or_empty(items[n], "value")>>))

encode_pairs(pairs) == Return(SomeValue(urlencode(pairs)))

\* _params_fallback(params)
params_fallback(params) ==
  IF params.type = "int" THEN Raise("TypeError")
  ELSE then(param_pairs(elements(params), Len(elements(params))),
            encode_pairs)

\* _parse_body(post_data)
parse_body(post_data) ==
  IF post_data.type = "NoneType" THEN Return(NoValue)
  ELSE IF post_data.type # "dict" THEN Raise("AttributeError")
  ELSE IF lookup_or_none(post_data, "text").type # "NoneType"
       THEN Return(SomeValue(lookup_or_none(post_data, "text").chars))
  ELSE IF truthy(lookup_or_none(post_data, "params"))
       THEN params_fallback(lookup_or_none(post_data, "params"))
  ELSE Return(NoValue)

CONTENT_TYPE ==
  <<"C", "o", "n", "t", "e", "n", "t", "-", "T", "y", "p", "e">>

\* request_content_type of _parse_entry, for a postData that _parse_body
\* accepted
content_type(post_data, request_headers) ==
  IF truthy(post_data) THEN field_text(post_data, "mimeType")
  ELSE IF index_of(request_headers, CONTENT_TYPE) # 0
       THEN request_headers[index_of(request_headers, CONTENT_TYPE)].value
  ELSE <<>>

\* str.upper() on one character
upper_char(c) ==
  IF \E u \in DOMAIN UpperToLower : UpperToLower[u] = c
  THEN CHOOSE u \in DOMAIN UpperToLower : UpperToLower[u] = c
  ELSE c

\* request["method"].upper(): only a str has the method
method_upper(method) ==
  IF method.type # "str" THEN Raise("AttributeError")
  ELSE Return([i \in 1..Len(method.chars) |-> upper_char(method.chars[i])])

\* response.get("content", {}).get("text")
response_text(content) ==
  IF content.type # "dict" THEN Raise("AttributeError")
  ELSE Return(IF lookup_or_none(content, "text").type = "NoneType"
              THEN NoValue
              ELSE SomeValue(lookup_or_none(content, "text").chars))

\* the exception of the statement that raises first, None when none does
first_exception(excs) ==
  IF \E i \in 1..Len(excs) : excs[i] # None
  THEN excs[CHOOSE i \in 1..Len(excs) :
              excs[i] # None /\ \A j \in 1..(i - 1) : excs[j] = None]
  ELSE None

\* _parse_entry once entry["request"] and entry["response"] are read
parse_entry_fields(entry, request, response, now) ==
  LET request_headers ==
        then(dict_get(request, "headers", PyList(<<>>)), extract_headers)
      request_cookies ==
        then(dict_get(request, "cookies", PyList(<<>>)), extract_cookies)
      response_headers ==
        then(dict_get(response, "headers", PyList(<<>>)), extract_headers)
      post_data == dict_get(request, "postData", PyNone)
      request_body == then(post_data, parse_body)
      response_body ==
        then(dict_get(response, "content", PyDict(<<>>)), response_text)
      timestamp ==
        then(dict_get(entry, "startedDateTime", PyStr(<<>>)),
             LAMBDA v : parse_timestamp(v, now))
      method == then(subscript(request, "method"), method_upper)
      url == subscript(request, "url")
      status == subscript(response, "status")
      exc == first_exception(
               <<request_headers.exc, request_cookies.exc,
                 response_headers.exc, request_body.exc, response_body.exc,
                 timestamp.exc, method.exc, url.exc, status.exc>>)
  IN  IF exc # None THEN Raise(exc)
      ELSE Return(
        [id |-> 0,
         request_method |-> method.value[1],
         request_url |-> url.value[1],
         request_headers |-> request_headers.value[1],
         request_cookies |-> request_cookies.value[1],
         request_body |-> request_body.value[1],
         request_content_type |->
           content_type(post_data.value[1], request_headers.value[1]),
         response_status |-> status.value[1],
         response_headers |-> response_headers.value[1],
         response_body |-> response_body.value[1],
         timestamp |-> timestamp.value[1]])

\* _parse_entry(entry); now is the reading of datetime.now()
parse_entry(entry, now) ==
  LET request == subscript(entry, "request")
      response == subscript(entry, "response")
  IN  IF request.exc # None THEN Raise(request.exc)
      ELSE IF response.exc # None THEN Raise(response.exc)
      ELSE parse_entry_fields(entry, request.value[1], response.value[1], now)

RECURSIVE parse_entries_stop_at_defect(_, _, _)
\* variant of the entry loop that stops at the first skipped entry
parse_entries_stop_at_defect(entries, nows, n) ==
  IF n = 0 THEN Return(<<>>)
  ELSE
    LET r == parse_entries_stop_at_defect(entries, nows, n - 1)
        e == parse_entry(entries[n], nows[n])
    IN  IF r.exc # None THEN r
        ELSE IF Len(r.value[1]) < n - 1 THEN r
        ELSE IF e.exc \in {"KeyError", "ValueError"} THEN r
        ELSE IF e.exc # None THEN Raise(e.exc)
        ELSE Return(Append(r.value[1], e.value[1]))

RECURSIVE parse_entries(_, _, _)
\* the loop of parse_har_file over the first n entries: KeyError and
\* ValueError skip the entry, any other exception leaves the function
parse_entries(entries, nows, n) ==
  IF n = 0 THEN Return(<<>>)
  ELSE
    LET r == parse_entries(entries, nows, n - 1)
        e == parse_entry(entries[n], nows[n])
    IN  IF r.exc # None THEN r
        ELSE IF e.exc \in {"KeyError", "ValueError"} THEN r
        ELSE IF e.exc # None THEN Raise(e.exc)
        ELSE Return(Append(r.value[1], e.value[1]))

\* the exchange objects of the returned list, told apart by their identity
number_exchanges(r) ==
  IF r.exc # None THEN r
  ELSE Return([i \in 1..Len(r.value[1]) |-> [r.value[1][i] EXCEPT !.id = i]])

\* parse_har_file(path); nows[i] is the reading of datetime.now() available
\* to the i-th entry
parse_har_file(file, nows) ==
  IF ~file.exists THEN Raise("FileNotFoundError")
  ELSE
    LET data == json_load(file)
    IN  IF data.exc = "JSONDecodeError" THEN Raise("HarParseError")
        ELSE IF data.exc # None THEN Raise(data.exc)
        ELSE IF validate_har(data.value[1]).exc # None
             THEN Raise(validate_har(data.value[1]).exc)
        ELSE LET entries == lookup(lookup(data.value[1], "log"), "entries").items
             IN  number_exchanges(parse_entries(entries, nows, Len(entries)))

(***************************************************************************)
(* Input values.                                                           *)
(***************************************************************************)
Cookie(name, value) == [name |-> name, value |-> value]

Header(name, value) == [name |-> name, value |-> value]

NameSid == <<"S","i","d">>

NameAuth == <<"a","u","t","h">>

NameLang == <<"l","a","n","g">>

ValueS1 == <<"s1">>

ValueS2 == <<"s2">>

\* a cookie value that reads like a fallback id
ValueNoSession == <<"no-session-", 0>>

NameAuthorizationLower ==
  <<"a","u","t","h","o","r","i","z","a","t","i","o","n">>

NameAccept == <<"A","c","c","e","p","t">>

NameXApiKey == <<"X","-","A","P","I","-","K","e","y">>

ValueBearer == <<"B","e","a","r","e","r"," ","x","y","z">>

ValueK == <<"k">>

\* the cookie_patterns arguments tried: absent, empty, and a custom list
PatternArgs ==
  {NoList, ListArg(<<>>), ListArg(<< <<"L","A","N","G">>, NameAuth >>)}

\* the auth_headers arguments tried: absent, empty, and a custom list
HeaderArgs ==
  {NoList, ListArg(<<>>), ListArg(<< <<"A","C","C","E","P","T">> >>)}

\* the (cookie_patterns, auth_headers) argument pairs tried by the detector
\* calls: both absent, both empty, and custom lists for either or both
DetectorArgs ==
  {<<cp, ah>> \in PatternArgs \X HeaderArgs :
     (cp = ListArg(<<>>)) <=> (ah = ListArg(<<>>))}

UuidHex == 0..(NumUuid - 1)

Instants == 1..MaxTime

AwareTimestamps == {Datetime(t, TRUE) : t \in Instants}

\* an offset-naive timestamp (no UTC offset in startedDateTime, or now())
NaiveTimestamp == Datetime(1, FALSE)

ReconCookieJars ==
  {<<>>, <<Cookie(NameAuth, ValueS2), Cookie(NameSid, ValueS1)>>}

DetectShapes ==
  {<< <<>>, <<>> >>,
   << <<Cookie(NameSid, ValueS1)>>, <<>> >>,
   << <<>>, <<Header(NameAuthorizationLower, ValueBearer)>> >>,
   << <<Cookie(NameSid, ValueS1)>>,
      <<Header(NameAuthorizationLower, ValueBearer)>> >>,
   << <<Cookie(NameLang, ValueS1)>>, <<Header(NameAccept, ValueK)>> >>,
   << <<Cookie(NameLang, ValueS1)>>,
      <<Header(NameAccept, ValueK), Header(NameXApiKey, ValueK)>> >>}

UrlOf(cookies) ==
  IF cookies = <<>> THEN "/a"
  ELSE IF cookies[1].name = NameSid THEN "/b" ELSE "/c"

MethodOf(headers) == IF headers = <<>> THEN "GET" ELSE "POST"

\* exchanges without identity (id 0); with_ids numbers them by position
ReconExchanges ==
  {HttpExchange(0, "GET", "/", <<>>, c, ts) :
     c \in ReconCookieJars, ts \in AwareTimestamps}
  \cup {HttpExchange(0, "GET", "/", <<>>,
                     <<Cookie(NameLang, ValueS2), Cookie(NameSid, ValueS1)>>,
                     Datetime(1, TRUE)),
        HttpExchange(0, "GET", "/", <<>>,
                     <<Cookie(NameSid, ValueNoSession)>>, Datetime(1, TRUE)),
        HttpExchange(0, "GET", "/", <<>>, <<>>, NaiveTimestamp)}

DetectExchanges ==
  {HttpExchange(0, MethodOf(sh[2]), UrlOf(sh[1]), sh[2], sh[1],
                Datetime(1, TRUE)) : sh \in DetectShapes}

AnalyzeShapes ==
  {<< <<Cookie(NameSid, ValueS1)>>, <<>> >>,
   << <<>>, <<Header(NameAuthorizationLower, ValueBearer)>> >>}

AnalyzeExchanges ==
  {HttpExchange(0, MethodOf(sh[2]), UrlOf(sh[1]), sh[2], sh[1], ts) :
     sh \in AnalyzeShapes, ts \in AwareTimestamps}
  \cup {HttpExchange(0, "POST", "/b",
                     <<Header(NameAuthorizationLower, ValueBearer)>>,
                     <<Cookie(NameSid, ValueS1)>>, Datetime(1, TRUE)),
        HttpExchange(0, "POST", "/c",
                     <<Header(NameAccept, ValueK), Header(NameXApiKey, ValueK)>>,
                     <<Cookie(NameLang, ValueS1)>>, Datetime(1, TRUE)),
        HttpExchange(0, "GET", "/a", <<>>, <<>>, NaiveTimestamp)}

NameAuthorization == DEFAULT_AUTH_HEADERS[1]

\* header values of 51 and of 50 characters
ValueLong == [i \in 1..(EVIDENCE_VALUE_LIMIT + 1) |-> "v"]

ValueAtLimit == [i \in 1..EVIDENCE_VALUE_LIMIT |-> "w"]

\* request headers of the exchanges given to the result builder: none, no
\* auth header, one auth header, two in the reverse of the default list's
\* order, and two names that differ in case only with long values
EvidenceHeaders ==
  {<<>>,
   <<Header(NameAccept, ValueK)>>,
   <<Header(NameAuthorizationLower, ValueBearer)>>,
   <<Header(NameXApiKey, ValueK), Header(NameAuthorization, ValueBearer)>>,
   <<Header(NameAuthorizationLower, ValueLong),
     Header(NameAuthorization, ValueAtLimit)>>}

EvidenceExchanges ==
  {HttpExchange(0, "POST", "/e", h, <<>>, Datetime(1, TRUE)) :
     h \in EvidenceHeaders}

with_ids(s) == [i \in 1..Len(s) |-> [s[i] EXCEPT !.id = i]]

ListsOf(S, n) == UNION {[1..m -> S] : m \in 0..n}

ReconInputs == {with_ids(s) : s \in ListsOf(ReconExchanges, MaxExchanges)}

DetectFlows ==
  {SessionFlow(<<"test-session">>, with_ids(s), m) :
     s \in ListsOf(DetectExchanges, MaxFlowLen), m \in AuthMechanism}

AnalyzeInputs == {with_ids(s) : s \in ListsOf(AnalyzeExchanges, MaxAnalyze)}

EvidenceFlows ==
  {SessionFlow(<<"test-session">>, with_ids(s), "header_only") :
     s \in ListsOf(EvidenceExchanges, MaxFlowLen)}

NoFlow == SessionFlow(<<>>, <<>>, "none")

(***************************************************************************)
(* HAR documents.                                                          *)
(***************************************************************************)
Pair(key, value) == [key |-> key, value |-> value]

NameValue(name, value) ==
  PyDict(<<Pair("name", PyStr(name)), Pair("value", PyStr(value))>>)

OkResponse ==
  PyDict(<<Pair("status", PyInt(200)), Pair("headers", PyList(<<>>)),
           Pair("content", PyDict(<<>>))>>)

\* a request with method "get", the given url and further members
Request(url, members) ==
  PyDict(<<Pair("method", PyStr(<<"g", "e", "t">>)),
           Pair("url", PyStr(<<url>>))>> \o members)

\* an entry; started is <<>> or the startedDateTime member
Entry(started, request) ==
  PyDict(started \o <<Pair("request", request), Pair("response", OkResponse)>>)

Started(value) == <<Pair("startedDateTime", value)>>

IsoAware(t) == PyStr(<<ToString(t), "+07:00">>)

IsoNaive(t) == PyStr(<<ToString(t)>>)

IsoZulu(t) == PyStr(<<ToString(t), "Z">>)

\* entries that differ in startedDateTime only
TimestampEntries ==
  {Entry(st, Request("/t", <<>>)) :
     st \in {<<>>, Started(PyNone), Started(PyStr(<<>>)), Started(IsoNaive(1)),
             Started(IsoZulu(1)), Started(PyStr(<<"x">>)), Started(PyInt(5))}
            \cup {Started(IsoAware(t)) : t \in 1..MaxTime}}

TextJson == <<"a", "p", "p", "/", "j", "s", "o", "n">>

TextForm == <<"f", "o", "r", "m">>

BodyText == <<"a", "=", "1">>

ContentTypeHeader == NameValue(CONTENT_TYPE, TextJson)

ContentTypeHeaderLower == NameValue(lower(CONTENT_TYPE), TextJson)

SomeParams ==
  PyList(<<NameValue(<<"a", " ", "b">>, <<"x", "&", "y">>),
           PyDict(<<Pair("value", PyStr(<<"z">>))>>),
           PyDict(<<Pair("name", PyStr(<<"n">>))>>)>>)

\* <<request headers, postData member>> of the entries that differ in
\* postData and Content-Type header only
PostDataShapes ==
  {<< <<ContentTypeHeader>>, <<>> >>,
   << <<ContentTypeHeaderLower>>, <<>> >>,
   << <<ContentTypeHeader>>, <<Pair("postData", PyDict(<<>>))>> >>,
   << <<>>, <<Pair("postData",
                   PyDict(<<Pair("mimeType", PyStr(TextForm)),
                            Pair("text", PyStr(BodyText))>>))>> >>,
   << <<ContentTypeHeader>>,
      <<Pair("postData", PyDict(<<Pair("text", PyStr(BodyText))>>))>> >>,
   << <<>>, <<Pair("postData",
                   PyDict(<<Pair("mimeType", PyStr(TextForm)),
                            Pair("params", SomeParams)>>))>> >>,
   << <<>>, <<Pair("postData",
                   PyDict(<<Pair("mimeType", PyStr(TextForm)),
                            Pair("text", PyStr(<<>>)),
                            Pair("params", SomeParams)>>))>> >>,
   << <<>>, <<Pair("postData",
                   PyDict(<<Pair("mimeType", PyStr(TextForm)),
                            Pair("params", PyList(<<>>))>>))>> >>,
   << <<>>, <<Pair("postData",
                   PyDict(<<Pair("mimeType", PyStr(TextForm))>>))>> >>}

PostDataEntries ==
  {Entry(Started(IsoAware(1)),
         Request("/p", <<Pair("headers", PyList(sh[1]))>> \o sh[2])) :
     sh \in PostDataShapes}

\* entries with a defect: no request, no method, an entry that is a string,
\* a header item that is a string, a method that is a number
DefectEntries ==
  {PyDict(<<Pair("response", OkResponse)>>),
   Entry(<<>>, PyDict(<<Pair("url", PyStr(<<"/d">>))>>)),
   PyStr(<<"x">>),
   Entry(<<>>, Request("/d", <<Pair("headers", PyList(<<PyStr(<<"x">>)>>))>>)),
   Entry(<<>>, PyDict(<<Pair("method", PyInt(5)),
                        Pair("url", PyStr(<<"/d">>))>>))}

ParseEntries == TimestampEntries \cup PostDataEntries \cup DefectEntries

\* a document that passes validation
HarDocument(entries) ==
  FileOf("json",
         PyDict(<<Pair("log",
                       PyDict(<<Pair("version", PyStr(<<"1", ".", "2">>)),
                                Pair("entries", PyList(entries))>>))>>))

LogOnly(log) == FileOf("json", PyDict(<<Pair("log", log)>>))

\* a missing file, and files that are not accepted as a HAR document:
\* bytes that are not UTF-8, no JSON text, an array, no log, a log that is
\* a string, no entries, entries that are an object, a numeric version
RejectedFiles ==
  {NoFile,
   FileOf("not_utf8", PyNone),
   FileOf("not_json", PyNone),
   FileOf("json", PyList(<<>>)),
   FileOf("json", PyDict(<<>>)),
   LogOnly(PyStr(<<"x">>)),
   LogOnly(PyDict(<<Pair("version", PyStr(<<"1", ".", "2">>))>>)),
   LogOnly(PyDict(<<Pair("entries", PyDict(<<>>))>>)),
   LogOnly(PyDict(<<Pair("version", PyInt(1)),
                    Pair("entries", PyList(<<>>))>>))}

ParseFiles ==
  RejectedFiles
  \cup {HarDocument(es) : es \in ListsOf(ParseEntries, MaxEntries)}

\* entries of the documents given to the whole pipeline: timestamps with
\* a UTC offset, without one, and absent; with and without a session
\* cookie and an Authorization header
PipelineEntries ==
  {Entry(Started(IsoAware(t)), Request("/a", <<>>)) : t \in 1..MaxTime}
  \cup
  {Entry(Started(IsoNaive(1)),
         Request("/b", <<Pair("cookies",
                         PyList(<<NameValue(NameSid, ValueS1)>>))>>)),
   Entry(<<>>,
         Request("/b", <<Pair("cookies",
                         PyList(<<NameValue(NameSid, ValueS1)>>))>>)),
   Entry(Started(IsoAware(1)),
         Request("/c", <<Pair("headers",
                         PyList(<<NameValue(NameAuthorizationLower,
                                            ValueBearer)>>))>>))}

PipelineFiles ==
  {HarDocument(es) : es \in ListsOf(PipelineEntries, MaxEntries)}

\* items of the header arrays tried: a name twice, the same name in the
\* other case, another name
HeaderItems ==
  {NameValue(<<"A">>, <<"1">>), NameValue(<<"A">>, <<"2">>),
   NameValue(<<"a">>, <<"1">>), NameValue(<<"B">>, <<"2">>)}

\* items of the cookie arrays tried: a name twice, another name, an empty
\* name, no name
CookieItems ==
  {NameValue(<<"c">>, <<"1">>), NameValue(<<"c">>, <<"2">>),
   NameValue(<<"d">>, <<"1">>), NameValue(<<>>, <<"1">>),
   PyDict(<<Pair("value", PyStr(<<"1">>))>>)}

\* documents of one entry whose request has a header array or a cookie
\* array of up to MaxItems items
ExtractFiles ==
  {HarDocument(<<Entry(Started(IsoAware(1)),
                       Request("/h", <<Pair("headers", PyList(items))>>))>>) :
     items \in ListsOf(HeaderItems, MaxItems)}
  \cup
  {HarDocument(<<Entry(Started(IsoAware(1)),
                       Request("/k", <<Pair("cookies", PyList(items))>>))>>) :
     items \in ListsOf(CookieItems, MaxItems)}

\* the entries of a document that passes validation
entries_of(file) == lookup(lookup(file.data, "log"), "entries").items

(***************************************************************************)
(* State.                                                                  *)
(***************************************************************************)
VARIABLES
  pc,                 \* position of the caller / of the analyze command
  op,                 \* the public function called last
  exchanges,          \* the exchange list given to reconstruct_flows
  cookie_patterns,    \* cookie_patterns argument of the last call
  auth_headers,       \* auth_headers argument of the last call
  session_keys,       \* session id computed for each input exchange
  flows,              \* list returned by reconstruct_flows
  flow,               \* the flow given to the detector functions
  ret,                \* value returned by the last detector call
  har_malformed,      \* analyze: the input file fails validation
  output_format,      \* analyze: --format
  updated_flows,      \* analyze: [update_flow_auth(f) for f in flows]
  idx,                \* analyze: position of the dispatch loop
  results,            \* analyze: report entries
  short_circuit_calls,\* analyze: flows given to build_short_circuit_result
  report,             \* analyze: <<document>> once written, else <<>>
  exit_code,          \* analyze: <<status>> once exited, else <<>>
  har_file,           \* the file given to parse_har_file
  clock,              \* readings of datetime.now(), one per entry
  raised              \* exception that left the last call, else None

vars == <<pc, op, exchanges, cookie_patterns, auth_headers, session_keys,
          flows, flow, ret, har_malformed, output_format, updated_flows,
          idx, results, short_circuit_calls, report, exit_code, har_file,
          clock, raised>>

parser_vars == <<har_file, clock, raised>>

analyze_vars == <<har_malformed, output_format, updated_flows, idx, results,
                  short_circuit_calls, report, exit_code>>

InitCommon ==
  /\ pc = "start"
  /\ op = "none"
  /\ cookie_patterns = NoList
  /\ auth_headers = NoList
  /\ session_keys = <<>>
  /\ flows = <<>>
  /\ ret = None
  /\ updated_flows = <<>>
  /\ idx = 1
  /\ results = <<>>
  /\ short_circuit_calls = <<>>
  /\ report = <<>>
  /\ exit_code = <<>>
  /\ clock = <<>>
  /\ raised = None

(***************************************************************************)
(* Reconstructor: a caller hands an exchange list to reconstruct_flows.    *)
(***************************************************************************)
Init ==
  /\ InitCommon
  /\ har_file = NoFile
  /\ exchanges \in ReconInputs
  /\ flow = NoFlow
  /\ har_malformed = FALSE
  /\ output_format = "json"

\* the uuid4 outcomes of one reconstruct_flows call: one draw for each
\* exchange whose cookies match no pattern (0 stands for "not drawn")
RECURSIVE uuid_draws_upto(_, _, _)
uuid_draws_upto(exchangeList, patterns, n) ==
  IF n = 0 THEN {<<>>}
  ELSE {Append(u, hex) :
          u \in uuid_draws_upto(exchangeList, patterns, n - 1),
          hex \in IF \E k \in 1..Len(exchangeList[n].request_cookies) :
                       any_pattern_in(
                         patterns,
                         lower(exchangeList[n].request_cookies[k].name), 1)
                  THEN {0} ELSE UuidHex}

uuid_draws(exchangeList, patterns) ==
  uuid_draws_upto(exchangeList, patterns, Len(exchangeList))

ReconstructFlows ==
  /\ pc = "start"
  /\ \E cp \in PatternArgs :
       \E patterns \in {or_default(cp, DEFAULT_SESSION_COOKIE_PATTERNS)} :
         \E uuids \in uuid_draws(exchanges, patterns) :
           \E r \in {reconstruct_flows(exchanges, cp, uuids)} :
             /\ cookie_patterns' = cp
             /\ session_keys' = session_ids(exchanges, patterns, uuids)
             /\ flows' = r.value
             /\ pc' = IF r.exc = None THEN "returned" ELSE "raised"
  /\ op' = "reconstruct_flows"
  /\ UNCHANGED parser_vars
  /\ UNCHANGED <<exchanges, auth_headers, flow, ret, analyze_vars>>

Next == ReconstructFlows

Spec == Init /\ [][Next]_vars

(***************************************************************************)
(* Detector: a caller builds a SessionFlow and calls one of the detector   *)
(* functions on it.                                                        *)
(***************************************************************************)
InitDetect ==
  /\ InitCommon
  /\ har_file = NoFile
  /\ flow \in DetectFlows
  /\ exchanges = flow.exchanges
  /\ har_malformed = FALSE
  /\ output_format = "json"

DetectAuthMechanism ==
  /\ pc = "start"
  /\ \E args \in DetectorArgs :
       /\ cookie_patterns' = args[1]
       /\ auth_headers' = args[2]
       /\ ret' = detect_auth_mechanism(flow, args[1], args[2])
  /\ op' = "detect_auth_mechanism"
  /\ pc' = "called"
  /\ UNCHANGED parser_vars
  /\ UNCHANGED <<exchanges, session_keys, flows, flow, analyze_vars>>

UpdateFlowAuth ==
  /\ pc = "start"
  /\ \E args \in DetectorArgs :
       /\ cookie_patterns' = args[1]
       /\ auth_headers' = args[2]
       /\ ret' = update_flow_auth(flow, args[1], args[2])
  /\ op' = "update_flow_auth"
  /\ pc' = "called"
  /\ UNCHANGED parser_vars
  /\ UNCHANGED <<exchanges, session_keys, flows, flow, analyze_vars>>

BuildShortCircuitResult ==
  /\ pc = "start"
  /\ \E now \in Instants : ret' = build_short_circuit_result(flow, now)
  /\ op' = "build_short_circuit_result"
  /\ pc' = "called"
  /\ UNCHANGED parser_vars
  /\ UNCHANGED <<exchanges, cookie_patterns, auth_headers, session_keys,
                 flows, flow, analyze_vars>>

NextDetect ==
  \/ DetectAuthMechanism
  \/ UpdateFlowAuth
  \/ BuildShortCircuitResult

SpecDetect == InitDetect /\ [][NextDetect]_vars

(***************************************************************************)
(* Result builder: a caller hands a flow of exchanges with auth headers to *)
(* build_short_circuit_result.                                             *)
(***************************************************************************)
InitEvidence ==
  /\ InitCommon
  /\ har_file = NoFile
  /\ flow \in EvidenceFlows
  /\ exchanges = flow.exchanges
  /\ har_malformed = FALSE
  /\ output_format = "json"

NextEvidence == BuildShortCircuitResult

SpecEvidence == InitEvidence /\ [][NextEvidence]_vars

(***************************************************************************)
(* The analyze command on an input file whose entries parse to             *)
(* `exchanges` (or which fails validation).                                *)
(***************************************************************************)
InitAnalyze ==
  /\ InitCommon
  /\ har_file = NoFile
  /\ exchanges \in AnalyzeInputs
  /\ har_malformed \in BOOLEAN
  /\ har_malformed => exchanges = <<>>
  /\ output_format \in {"json", "html"}
  /\ flow = NoFlow

\* Step 1: parse_har_file, its error exits and the empty-result exit
AnalyzeParse ==
  /\ pc = "start"
  /\ op' = "analyze"
  /\ IF har_malformed
     THEN pc' = "exit" /\ exit_code' = <<1>>
     ELSE IF exchanges = <<>>
     THEN pc' = "exit" /\ exit_code' = <<0>>
     ELSE pc' = "parsed" /\ UNCHANGED exit_code
  /\ UNCHANGED parser_vars
  /\ UNCHANGED <<exchanges, cookie_patterns, auth_headers, session_keys,
                 flows, flow, ret, har_malformed, output_format,
                 updated_flows, idx, results, short_circuit_calls, report>>

\* Step 2: reconstruct_flows(exchanges); an exception leaves the command
AnalyzeReconstruct ==
  /\ pc = "parsed"
  /\ \E uuids \in uuid_draws(exchanges, DEFAULT_SESSION_COOKIE_PATTERNS) :
       LET r == reconstruct_flows(exchanges, NoList, uuids)
       IN  /\ session_keys' =
                session_ids(exchanges, DEFAULT_SESSION_COOKIE_PATTERNS, uuids)
           /\ flows' = r.value
           /\ IF r.exc = None
              THEN pc' = "reconstructed" /\ UNCHANGED exit_code
              ELSE pc' = "exit" /\ exit_code' = <<1>>
  /\ UNCHANGED parser_vars
  /\ UNCHANGED <<op, exchanges, cookie_patterns, auth_headers, flow, ret,
                 har_malformed, output_format, updated_flows, idx, results,
                 short_circuit_calls, report>>

\* variant of Step 3 in which update_flow_auth writes the mechanism into
\* the flow it was given
AnalyzeDetectInPlace ==
  /\ pc = "reconstructed"
  /\ updated_flows' =
       [g \in 1..Len(flows) |-> update_flow_auth(flows[g], NoList, NoList)]
  /\ flows' = updated_flows'
  /\ idx' = 1
  /\ pc' = "dispatch"
  /\ UNCHANGED parser_vars
  /\ UNCHANGED <<op, exchanges, cookie_patterns, auth_headers, session_keys,
                 flow, ret, har_malformed, output_format, results,
                 short_circuit_calls, report, exit_code>>

\* Step 3: updated_flows = [update_flow_auth(flow) for flow in flows]
AnalyzeDetect ==
  /\ pc = "reconstructed"
  /\ updated_flows' =
       [g \in 1..Len(flows) |-> update_flow_auth(flows[g], NoList, NoList)]
  /\ idx' = 1
  /\ pc' = "dispatch"
  /\ UNCHANGED parser_vars
  /\ UNCHANGED <<op, exchanges, cookie_patterns, auth_headers, session_keys,
                 flows, flow, ret, har_malformed, output_format, results,
                 short_circuit_calls, report, exit_code>>

\* loop body, `if` branch: the flow is short-circuited
AnalyzeShortCircuit ==
  /\ pc = "dispatch"
  /\ idx <= Len(updated_flows)
  /\ short_circuits(updated_flows[idx].auth_mechanism)
  /\ \E now \in Instants :
       LET result == build_short_circuit_result(updated_flows[idx], now)
       IN  results' =
             Append(results, short_circuit_entry(updated_flows[idx], result))
  /\ short_circuit_calls' = Append(short_circuit_calls, updated_flows[idx])
  /\ idx' = idx + 1
  /\ UNCHANGED parser_vars
  /\ UNCHANGED <<pc, op, exchanges, cookie_patterns, auth_headers,
                 session_keys, flows, flow, ret, har_malformed, output_format,
                 updated_flows, report, exit_code>>

\* loop body, `else` branch: the flow waits for the later phases
AnalyzeQueue ==
  /\ pc = "dispatch"
  /\ idx <= Len(updated_flows)
  /\ ~short_circuits(updated_flows[idx].auth_mechanism)
  /\ results' = Append(results,
                       queued_entry(updated_flows[idx],
                                    updated_flows[idx].auth_mechanism))
  /\ idx' = idx + 1
  /\ UNCHANGED parser_vars
  /\ UNCHANGED <<pc, op, exchanges, cookie_patterns, auth_headers,
                 session_keys, flows, flow, ret, har_malformed, output_format,
                 updated_flows, short_circuit_calls, report, exit_code>>

\* Step 4: write the report (JSON only) and finish
AnalyzeOutput ==
  /\ pc = "dispatch"
  /\ idx > Len(updated_flows)
  /\ report' = IF output_format = "json" THEN <<json_report(results)>>
               ELSE report
  /\ pc' = "done"
  /\ exit_code' = <<0>>
  /\ UNCHANGED parser_vars
  /\ UNCHANGED <<op, exchanges, cookie_patterns, auth_headers, session_keys,
                 flows, flow, ret, har_malformed, output_format,
                 updated_flows, idx, results, short_circuit_calls>>

NextAnalyze ==
  \/ AnalyzeParse
  \/ AnalyzeReconstruct
  \/ AnalyzeDetect
  \/ AnalyzeShortCircuit
  \/ AnalyzeQueue
  \/ AnalyzeOutput

SpecAnalyze == InitAnalyze /\ [][NextAnalyze]_vars

(***************************************************************************)
(* Parser: a caller hands a file to parse_har_file.                        *)
(***************************************************************************)
InitParse ==
  /\ InitCommon
  /\ har_file \in ParseFiles
  /\ exchanges = <<>>
  /\ flow = NoFlow
  /\ har_malformed = FALSE
  /\ output_format = "json"

\* the entry reads the clock: its timestamp depends on the reading
reads_clock(entry) ==
  \E t \in Instants : parse_entry(entry, t) # parse_entry(entry, 1)

RECURSIVE clock_draws_upto(_, _)
clock_draws_upto(entries, n) ==
  IF n = 0 THEN {<<>>}
  ELSE {Append(c, now) :
          c \in clock_draws_upto(entries, n - 1),
          now \in IF reads_clock(entries[n]) THEN Instants ELSE {1}}

\* the readings of datetime.now() of one parse_har_file call: one draw for
\* each entry whose timestamp is the current time
clock_draws(file) ==
  IF file.exists /\ json_load(file).exc = None
     /\ validate_har(file.data).exc = None
  THEN clock_draws_upto(entries_of(file), Len(entries_of(file)))
  ELSE {<<>>}

ParseHarFile ==
  /\ pc = "start"
  /\ \E nows \in clock_draws(har_file) :
       \E r \in {parse_har_file(har_file, nows)} :
         /\ clock' = nows
         /\ raised' = r.exc
         /\ exchanges' = IF r.exc = None THEN r.value[1] ELSE <<>>
         /\ pc' = IF r.exc = None THEN "returned" ELSE "raised"
  /\ op' = "parse_har_file"
  /\ UNCHANGED <<har_file, cookie_patterns, auth_headers, session_keys,
                 flows, flow, ret, analyze_vars>>

NextParse == ParseHarFile

SpecParse == InitParse /\ [][NextParse]_vars

(***************************************************************************)
(* Extraction: parse_har_file on documents of one entry with a header      *)
(* array or a cookie array.                                                *)
(***************************************************************************)
InitExtract ==
  /\ InitCommon
  /\ har_file \in ExtractFiles
  /\ exchanges = <<>>
  /\ flow = NoFlow
  /\ har_malformed = FALSE
  /\ output_format = "json"

NextExtract == ParseHarFile

SpecExtract == InitExtract /\ [][NextExtract]_vars

(***************************************************************************)
(* Pipeline: parse_har_file, then reconstruct_flows on the parsed list,    *)
(* then update_flow_auth on every returned flow.                           *)
(***************************************************************************)
InitPipeline ==
  /\ InitCommon
  /\ har_file \in PipelineFiles
  /\ exchanges = <<>>
  /\ flow = NoFlow
  /\ har_malformed = FALSE
  /\ output_format = "json"

PipelineReconstruct ==
  /\ pc = "returned"
  /\ op = "parse_har_file"
  /\ \E uuids \in uuid_draws(exchanges, DEFAULT_SESSION_COOKIE_PATTERNS) :
       \E r \in {reconstruct_flows(exchanges, NoList, uuids)} :
         /\ session_keys' =
              session_ids(exchanges, DEFAULT_SESSION_COOKIE_PATTERNS, uuids)
         /\ flows' = r.value
         /\ raised' = r.exc
         /\ pc' = IF r.exc = None THEN "reconstructed" ELSE "raised"
  /\ op' = "reconstruct_flows"
  /\ UNCHANGED <<har_file, clock, exchanges, cookie_patterns, auth_headers,
                 flow, ret, analyze_vars>>

PipelineDetect ==
  /\ pc = "reconstructed"
  /\ updated_flows' =
       [g \in 1..Len(flows) |-> update_flow_auth(flows[g], NoList, NoList)]
  /\ op' = "update_flow_auth"
  /\ pc' = "detected"
  /\ UNCHANGED <<parser_vars, exchanges, cookie_patterns, auth_headers,
                 session_keys, flows, flow, ret, har_malformed, output_format,
                 idx, results, short_circuit_calls, report, exit_code>>

NextPipeline ==
  \/ ParseHarFile
  \/ PipelineReconstruct
  \/ PipelineDetect

SpecPipeline == InitPipeline /\ [][NextPipeline]_vars

(***************************************************************************)
(* Session identification: a caller applies _identify_session to two       *)
(* exchanges with the same patterns.                                       *)
(***************************************************************************)
IdentifyCookieJars ==
  {<<>>,
   <<Cookie(NameSid, ValueS1)>>,
   <<Cookie(NameSid, ValueS1), Cookie(NameAuth, ValueS2)>>,
   <<Cookie(NameAuth, ValueS2), Cookie(NameSid, ValueS1)>>,
   <<Cookie(NameLang, ValueS2), Cookie(NameSid, ValueS1)>>,
   <<Cookie(NameLang, ValueS2)>>}

IdentifyPatterns ==
  {DEFAULT_SESSION_COOKIE_PATTERNS,
   << <<"L", "A", "N", "G">>, NameAuth >>,
   << NameAuth, <<"L", "A", "N", "G">> >>}

IdentifyInputs ==
  {with_ids(<<HttpExchange(0, "GET", "/", <<>>, a, Datetime(1, TRUE)),
              HttpExchange(0, "GET", "/", <<>>, b, Datetime(t, TRUE))>>) :
     a \in IdentifyCookieJars, b \in IdentifyCookieJars, t \in Instants}

InitIdentify ==
  /\ InitCommon
  /\ har_file = NoFile
  /\ exchanges \in IdentifyInputs
  /\ flow = NoFlow
  /\ har_malformed = FALSE
  /\ output_format = "json"

IdentifySession ==
  /\ pc = "start"
  /\ \E patterns \in IdentifyPatterns, uuids \in [1..2 -> UuidHex] :
       /\ cookie_patterns' = ListArg(patterns)
       /\ session_keys' =
            [i \in 1..2 |-> identify_session(exchanges[i], patterns, uuids[i])]
  /\ op' = "_identify_session"
  /\ pc' = "called"
  /\ UNCHANGED <<parser_vars, exchanges, auth_headers, flows, flow, ret,
                 analyze_vars>>

NextIdentify == IdentifySession

SpecIdentify == InitIdentify /\ [][NextIdentify]_vars

(***************************************************************************)
(* Vocabulary of the properties.                                           *)
(***************************************************************************)
\* the pattern list in force for the last call
EffectivePatterns ==
  IF ~cookie_patterns.given \/ cookie_patterns.list = <<>>
  THEN DEFAULT_SESSION_COOKIE_PATTERNS ELSE cookie_patterns.list

\* the header-name list in force for the last call
EffectiveHeaders ==
  IF ~auth_headers.given \/ auth_headers.list = <<>>
  THEN DEFAULT_AUTH_HEADERS ELSE auth_headers.list

\* a session cookie: the lower-cased name contains a lower-cased pattern
IsSessionCookie(cookie, patterns) ==
  \E j \in 1..Len(patterns) : str_in(lower(patterns[j]), lower(cookie.name))

CarriesSessionCookie(exchange, patterns) ==
  \E k \in 1..Len(exchange.request_cookies) :
    IsSessionCookie(exchange.request_cookies[k], patterns)

\* an auth header: the name equals a configured name ignoring case
CarriesAuthHeader(exchange, headers) ==
  \E k \in 1..Len(exchange.request_headers), j \in 1..Len(headers) :
    lower(exchange.request_headers[k].name) = lower(headers[j])

Returned == op = "reconstruct_flows" /\ pc = "returned"

\* identities of the exchanges of a flow
MemberIds(f) == {f.exchanges[k].id : k \in 1..Len(f.exchanges)}

InSameFlow(i, j) ==
  \E g \in 1..Len(flows) : i \in MemberIds(flows[g]) /\ j \in MemberIds(flows[g])

InputIds == 1..Len(exchanges)

\* the mechanism the truth table assigns to a flow
TableMechanism(f, patterns, headers) ==
  LET cookie == \E k \in 1..Len(f.exchanges) :
                  CarriesSessionCookie(f.exchanges[k], patterns)
      header == \E k \in 1..Len(f.exchanges) :
                  CarriesAuthHeader(f.exchanges[k], headers)
  IN  IF cookie /\ header THEN "mixed"
      ELSE IF cookie THEN "cookie"
      ELSE IF header THEN "header_only"
      ELSE "none"

(***************************************************************************)
(* C1: detect_auth_mechanism returns COOKIE when some exchange of the flow *)
(* has a session cookie and none has an auth header, HEADER_ONLY when none *)
(* has a session cookie and some has an auth header, MIXED when both occur *)
(* (in one exchange or in different ones), NONE when neither occurs;       *)
(* cookie names match by lower-cased substring, header names by equality   *)
(* ignoring case.                                                          *)
(***************************************************************************)
C1_DetectionTruthTable ==
  op = "detect_auth_mechanism" =>
    ret = TableMechanism(flow, EffectivePatterns, EffectiveHeaders)

\* MIXED from different exchanges: a lower-case authorization header on the
\* first exchange, a mixed-case Sid cookie on the second
C1_Witness ==
  /\ op = "detect_auth_mechanism"
  /\ ret = "mixed"
  /\ ~cookie_patterns.given
  /\ ~auth_headers.given
  /\ Len(flow.exchanges) >= 2
  /\ CarriesAuthHeader(flow.exchanges[1], DEFAULT_AUTH_HEADERS)
  /\ ~CarriesSessionCookie(flow.exchanges[1], DEFAULT_SESSION_COOKIE_PATTERNS)
  /\ CarriesSessionCookie(flow.exchanges[2], DEFAULT_SESSION_COOKIE_PATTERNS)
  /\ ~CarriesAuthHeader(flow.exchanges[2], DEFAULT_AUTH_HEADERS)

(***************************************************************************)
(* C2: for every flow (any number of exchanges, any headers, any           *)
(* auth_mechanism) build_short_circuit_result returns risk_score 5,        *)
(* risk_level LOW, exactly one finding, with rule id CSRF-011 and severity *)
(* INFO, exactly one recommendation, and no ml_probability and no          *)
(* feature_vector.                                                         *)
(***************************************************************************)
C2_ShortCircuitResultFixed ==
  op = "build_short_circuit_result" =>
    /\ ret.risk_score = 5
    /\ ret.risk_level = "LOW"
    /\ Len(ret.findings) = 1
    /\ ret.findings[1].rule_id = "CSRF-011"
    /\ ret.findings[1].severity = "INFO"
    /\ Len(ret.recommendations) = 1
    /\ ret.ml_probability = None
    /\ ret.feature_vector = None

\* a flow without exchanges whose mechanism is not HEADER_ONLY
C2_Witness ==
  /\ op = "build_short_circuit_result"
  /\ flow.exchanges = <<>>
  /\ flow.auth_mechanism = "cookie"

(***************************************************************************)
(* C3: in the output of reconstruct_flows two exchanges that both carry a  *)
(* matching session cookie are in the same flow iff their session keys are *)
(* equal; a flow's session_id is the session key of each of its exchanges; *)
(* no two returned flows share a session_id.                               *)
(***************************************************************************)
C3_GroupedBySessionKey ==
  Returned =>
    /\ \A i, j \in InputIds :
         (/\ CarriesSessionCookie(exchanges[i], EffectivePatterns)
          /\ CarriesSessionCookie(exchanges[j], EffectivePatterns))
         => (InSameFlow(i, j) <=> session_keys[i] = session_keys[j])
    /\ \A g \in 1..Len(flows) : \A i \in MemberIds(flows[g]) :
         flows[g].session_id = session_keys[i]
    /\ \A g, h \in 1..Len(flows) :
         g # h => flows[g].session_id # flows[h].session_id

C3_Witness ==
  /\ Returned
  /\ \E i, j, k \in InputIds :
       /\ i < j /\ j < k
       /\ \A n \in {i, j, k} :
            CarriesSessionCookie(exchanges[n], EffectivePatterns)
       /\ session_keys[i] = session_keys[k]
       /\ session_keys[i] # session_keys[j]
       /\ InSameFlow(i, k)
       /\ ~InSameFlow(i, j)

(***************************************************************************)
(* C4: every exchange none of whose cookie names matches a pattern is the  *)
(* only member of its flow, whatever else is in the input; the fallback    *)
(* keys synthesized for two different exchanges are never equal.           *)
(***************************************************************************)
C4_FallbackExchangesAlone ==
  Returned =>
    /\ \A i \in InputIds :
         ~CarriesSessionCookie(exchanges[i], EffectivePatterns)
         => \E g \in 1..Len(flows) : flows[g].exchanges = <<exchanges[i]>>
    /\ \A i, j \in InputIds :
         (/\ i # j
          /\ ~CarriesSessionCookie(exchanges[i], EffectivePatterns)
          /\ ~CarriesSessionCookie(exchanges[j], EffectivePatterns))
         => session_keys[i] # session_keys[j]

\* the positions <<flow, index>> of the returned flows
FlowPositions ==
  {<<g, k>> \in (1..Len(flows)) \X (1..Len(exchanges)) :
     k <= Len(flows[g].exchanges)}

(***************************************************************************)
(* C5: reconstruct_flows returns the empty list for an empty input; for a  *)
(* non-empty input the returned flows partition the input: every input     *)
(* exchange is in exactly one flow exactly once, the flow lengths sum to   *)
(* the number of input exchanges, and no flow is empty.                    *)
(***************************************************************************)
C5_FlowsPartitionInput ==
  Returned =>
    /\ exchanges = <<>> => flows = <<>>
    /\ \A i \in InputIds :
         Cardinality({p \in FlowPositions :
                        flows[p[1]].exchanges[p[2]] = exchanges[i]}) = 1
    /\ Cardinality(FlowPositions) = Len(exchanges)
    /\ \A g \in 1..Len(flows) :
         /\ flows[g].exchanges # <<>>
         /\ Len(flows[g].exchanges) <= Len(exchanges)

C5_Witness ==
  /\ Returned
  /\ Len(exchanges) = 3
  /\ Len(flows) = 2

\* index of the first session cookie in the exchange's cookie order
FirstSessionCookie(exchange, patterns) ==
  CHOOSE k \in 1..Len(exchange.request_cookies) :
    /\ IsSessionCookie(exchange.request_cookies[k], patterns)
    /\ \A m \in 1..(k - 1) :
         ~IsSessionCookie(exchange.request_cookies[m], patterns)

(***************************************************************************)
(* C6: the session key of an exchange with a matching cookie is the value  *)
(* of the first cookie, in cookie order, whose lower-cased name contains   *)
(* any lower-cased pattern; pattern order and specificity play no part.    *)
(***************************************************************************)
C6_FirstMatchingCookieWins ==
  op = "reconstruct_flows" =>
    \A i \in InputIds :
      CarriesSessionCookie(exchanges[i], EffectivePatterns)
      => session_keys[i] =
           exchanges[i].request_cookies[
             FirstSessionCookie(exchanges[i], EffectivePatterns)].value

\* the first cookie matches only the last default pattern, the second
\* cookie matches an earlier pattern, and the first cookie's value is the key
C6_Witness ==
  /\ op = "reconstruct_flows"
  /\ cookie_patterns = NoList
  /\ \E i \in InputIds :
       /\ exchanges[i].request_cookies =
            <<Cookie(NameAuth, ValueS2), Cookie(NameSid, ValueS1)>>
       /\ session_keys[i] = ValueS2

(***************************************************************************)
(* C7: in every returned flow the exchanges are in non-decreasing          *)
(* timestamp order, and exchanges with equal timestamps keep the relative  *)
(* order they had in the input.                                            *)
(***************************************************************************)
C7_ExchangesSortedStably ==
  Returned =>
    \A g \in 1..Len(flows) :
      \A a, b \in 1..Len(flows[g].exchanges) :
        a < b =>
          /\ flows[g].exchanges[a].timestamp.t <= flows[g].exchanges[b].timestamp.t
          /\ flows[g].exchanges[a].timestamp.t = flows[g].exchanges[b].timestamp.t
             => flows[g].exchanges[a].id < flows[g].exchanges[b].id

\* input order late, early, early: the two early ones keep their order
C7_Witness ==
  /\ Returned
  /\ \E g \in 1..Len(flows) :
       /\ Len(flows[g].exchanges) = 3
       /\ flows[g].exchanges[1].id = 2
       /\ flows[g].exchanges[2].id = 3
       /\ flows[g].exchanges[3].id = 1
       /\ flows[g].exchanges[1].timestamp = flows[g].exchanges[2].timestamp

(***************************************************************************)
(* C8: the returned flows are in non-decreasing order of their first       *)
(* exchange's timestamp, whatever the order of the input.                  *)
(***************************************************************************)
C8_FlowsSortedByFirstExchange ==
  Returned =>
    \A g, h \in 1..Len(flows) :
      g < h => flows[g].exchanges[1].timestamp.t
                 <= flows[h].exchanges[1].timestamp.t

\* the flow of the first input exchange is returned second
C8_Witness ==
  /\ Returned
  /\ Len(flows) = 2
  /\ 1 \in MemberIds(flows[2])
  /\ flows[1].exchanges[1].timestamp.t < flows[2].exchanges[1].timestamp.t

(***************************************************************************)
(* C9: update_flow_auth returns a SessionFlow with the input's session_id  *)
(* and exchange sequence and with the mechanism detect_auth_mechanism      *)
(* gives for the same arguments; the input flow keeps its session_id,      *)
(* exchanges and auth_mechanism.                                           *)
(***************************************************************************)
C9_UpdateFlowAuthReturnsNewFlow ==
  [][op' = "update_flow_auth" =>
       /\ ret'.session_id = flow.session_id
       /\ ret'.exchanges = flow.exchanges
       /\ ret'.auth_mechanism =
            detect_auth_mechanism(flow, cookie_patterns', auth_headers')
       /\ flow' = flow]_vars

\* a flow classified COOKIE beforehand is returned as HEADER_ONLY
C9_Witness ==
  /\ op = "update_flow_auth"
  /\ flow.auth_mechanism = "cookie"
  /\ ret.auth_mechanism = "header_only"
  /\ Len(flow.exchanges) = 2

\* the truth table under the default patterns and header names
DefaultMechanism(f) ==
  TableMechanism(f, DEFAULT_SESSION_COOKIE_PATTERNS, DEFAULT_AUTH_HEADERS)

\* positions of the flows already dispatched whose mechanism is HEADER_ONLY
HeaderOnlyDispatched ==
  {k \in 1..Len(results) : DefaultMechanism(flows[k]) = "header_only"}

(***************************************************************************)
(* C10: in the analyze pipeline build_short_circuit_result is invoked for  *)
(* a flow iff its detected mechanism is HEADER_ONLY; every flow produces   *)
(* exactly one report entry, short_circuited for HEADER_ONLY flows and     *)
(* awaiting_phase2 for COOKIE, MIXED and NONE flows; total_flows is the    *)
(* number of reconstructed flows.                                          *)
(***************************************************************************)
C10_ShortCircuitIffHeaderOnly ==
  pc \in {"dispatch", "done"} =>
    /\ Len(updated_flows) = Len(flows)
    /\ Len(results) = idx - 1
    /\ Len(results) <= Len(flows)
    /\ \A k \in 1..Len(results) :
         /\ results[k].session_id = flows[k].session_id
         /\ results[k].short_circuited
              <=> DefaultMechanism(flows[k]) = "header_only"
         /\ ~results[k].short_circuited
              => /\ results[k].status = "awaiting_phase2"
                 /\ results[k].auth_mechanism = DefaultMechanism(flows[k])
                 /\ results[k].auth_mechanism \in {"cookie", "mixed", "none"}
    /\ Len(short_circuit_calls) = Cardinality(HeaderOnlyDispatched)
    /\ \A k \in HeaderOnlyDispatched :
         \E c \in 1..Len(short_circuit_calls) :
           /\ short_circuit_calls[c].session_id = flows[k].session_id
           /\ short_circuit_calls[c].exchanges = flows[k].exchanges
    /\ pc = "done" =>
         /\ Len(results) = Len(flows)
         /\ output_format = "json" =>
              /\ report # <<>>
              /\ report[1].total_flows = Len(flows)
              /\ report[1].flows = results

\* a finished run with a short-circuited flow and a queued MIXED flow
C10_Witness ==
  /\ pc = "done"
  /\ report # <<>>
  /\ Len(flows) = 2
  /\ \E a, b \in 1..2 :
       /\ results[a].short_circuited
       /\ ~results[b].short_circuited
       /\ results[b].auth_mechanism = "mixed"


(***************************************************************************)
(* Vocabulary of the parser properties.                                    *)
(***************************************************************************)
ParseCalled == op = "parse_har_file"

ParseReturned == ParseCalled /\ pc = "returned"

\* the file is a JSON text that _validate_har let through
PassedValidation ==
  /\ har_file.exists
  /\ json_load(har_file).exc = None
  /\ validate_har(har_file.data).exc = None

\* what _parse_entry makes of the i-th entry on its own
ParsedAlone(i) == parse_entry(entries_of(har_file)[i], clock[i])

\* positions of the entries that parse without a defect
KeptEntries ==
  {i \in 1..Len(entries_of(har_file)) : ParsedAlone(i).exc = None}

\* position in log.entries of the k-th entry without a defect
EntryOf(k) ==
  CHOOSE i \in KeptEntries : Cardinality({j \in KeptEntries : j < i}) = k - 1

(***************************************************************************)
(* C11: on every exchange list parse_har_file returns, whatever the mix    *)
(* of timezone-aware, timezone-less and current-time timestamps,           *)
(* reconstruct_flows returns a flow list without raising (and the          *)
(* detector returns on every returned flow).                               *)
(***************************************************************************)
C11_ReconstructorTotalOnParsedLists ==
  op = "reconstruct_flows" => pc # "raised"

(***************************************************************************)
(* C12: once a document has passed validation no entry makes               *)
(* parse_har_file fail: the call returns, and it returns every entry       *)
(* that parses on its own.                                                 *)
(***************************************************************************)
C12_NoEntryFailsTheParse ==
  (ParseCalled /\ PassedValidation) =>
    /\ pc = "returned"
    /\ Len(exchanges) = Cardinality(KeptEntries)

(***************************************************************************)
(* C13: for a valid document the exchanges parse_har_file returns are, in  *)
(* log.entries order, exactly the entries that parsed without a defect:    *)
(* at most as many exchanges as entries, and as many when no entry is      *)
(* defective.                                                              *)
(***************************************************************************)
C13_OutputIsSubsequenceOfEntries ==
  ParseReturned =>
    /\ Len(exchanges) = Cardinality(KeptEntries)
    /\ Len(exchanges) <= Len(entries_of(har_file))
    /\ \A k \in 1..Len(exchanges) :
         exchanges[k] = [ParsedAlone(EntryOf(k)).value[1] EXCEPT !.id = k]
    /\ (\A i \in 1..Len(entries_of(har_file)) :
          ParsedAlone(i).exc \notin {"KeyError", "ValueError"})
         => Len(exchanges) = Len(entries_of(har_file))

\* a defective entry followed by a sound one: only the second is returned
C13_Witness ==
  /\ ParseReturned
  /\ Len(entries_of(har_file)) = 2
  /\ ParsedAlone(1).exc = "KeyError"
  /\ Len(exchanges) = 1
  /\ exchanges[1].request_url = ParsedAlone(2).value[1].request_url

\* the content of an existing file is no JSON text, or is JSON without an
\* object at the top, a `log` object in it and an `entries` array in that
MalformedDocument ==
  /\ har_file.exists
  /\ \/ har_file.content # "json"
     \/ har_file.data.type # "dict"
     \/ ~has_key(har_file.data, "log")
     \/ lookup(har_file.data, "log").type # "dict"
     \/ ~has_key(lookup(har_file.data, "log"), "entries")
     \/ lookup(lookup(har_file.data, "log"), "entries").type # "list"

(***************************************************************************)
(* C14: parse_har_file on a missing path fails with FileNotFoundError; on  *)
(* an existing file that is invalid JSON, is not a JSON object, lacks      *)
(* `log`, has a non-object `log`, lacks `entries` or has a non-array       *)
(* `entries` it fails with HarParseError and returns no exchange.          *)
(***************************************************************************)
C14_MalformedDocumentError ==
  ParseCalled =>
    /\ ~har_file.exists => raised = "FileNotFoundError"
    /\ MalformedDocument => (raised = "HarParseError" /\ exchanges = <<>>)

\* the entry with its startedDateTime replaced by a timestamp with offset
with_sound_timestamp(entry) ==
  IF entry.type # "dict" THEN entry
  ELSE PyDict(Started(IsoAware(1))
              \o SelectSeq(entry.items,
                           LAMBDA m : m.key # "startedDateTime"))

\* the entry has the required fields: it parses once its timestamp is sound
HasRequiredFields(entry) == parse_entry(with_sound_timestamp(entry), 1).exc = None

\* the timestamp an entry is to get: the instant of a parseable text, a
\* trailing Z being UTC, else the current time
ExpectedTimestamp(entry, now) ==
  LET started == lookup_or_none(entry, "startedDateTime")
  IN  IF started.type = "str" /\ Len(started.chars) \in {1, 2}
         /\ (\E t \in 1..MaxTime : started.chars[1] = ToString(t))
         /\ (Len(started.chars) = 2 => started.chars[2] \in UtcOffsets \cup {"Z"})
      THEN Datetime(CHOOSE t \in 1..MaxTime : started.chars[1] = ToString(t),
                    Len(started.chars) = 2)
      ELSE Datetime(now, FALSE)

(***************************************************************************)
(* C15: every entry with the required request and response fields yields   *)
(* an exchange whatever its startedDateTime: a parseable ISO-8601 value     *)
(* gives that instant, an absent, empty or unparseable one the current     *)
(* time; the timestamp never makes the entry fail.                         *)
(***************************************************************************)
C15_TimestampNeverFails ==
  (ParseCalled /\ PassedValidation) =>
    \A i \in 1..Len(entries_of(har_file)) :
      HasRequiredFields(entries_of(har_file)[i]) =>
        /\ ParsedAlone(i).exc = None
        /\ ParsedAlone(i).value[1].timestamp =
             ExpectedTimestamp(entries_of(har_file)[i], clock[i])

\* postData of the entry behind the k-th returned exchange (None if absent)
PostDataOf(k) ==
  lookup_or_none(lookup(entries_of(har_file)[EntryOf(k)], "request"), "postData")

\* the content type the k-th exchange is to get
ExpectedContentType(k) ==
  IF PostDataOf(k).type = "dict" /\ has_key(PostDataOf(k), "mimeType")
  THEN lookup(PostDataOf(k), "mimeType").chars
  ELSE IF index_of(exchanges[k].request_headers, CONTENT_TYPE) # 0
  THEN exchanges[k].request_headers[
         index_of(exchanges[k].request_headers, CONTENT_TYPE)].value
  ELSE <<>>

(***************************************************************************)
(* C16: the request content type of a parsed exchange is postData.mimeType *)
(* when postData has one; otherwise the value of the Content-Type request  *)
(* header when present; otherwise the empty string.                        *)
(***************************************************************************)
C16_ContentTypeResolution ==
  ParseReturned =>
    \A k \in 1..Len(exchanges) :
      exchanges[k].request_content_type = ExpectedContentType(k)

\* a member of postData is present: the key is there with a value
Present(post_data, key) ==
  post_data.type = "dict" /\ lookup_or_none(post_data, key).type # "NoneType"

\* the name=value pairs of the params that have a name, in array order
NamedPairs(params) ==
  LET named == SelectSeq(params.items,
                         LAMBDA item : lookup_or_none(item, "name").type # "NoneType")
  IN  [i \in 1..Len(named) |->
         <<lookup_or_empty(named[i], "name"), lookup_or_empty(named[i], "value")>>]

\* the body the k-th exchange is to get
ExpectedBody(k) ==
  IF PostDataOf(k).type = "NoneType" THEN NoValue
  ELSE IF Present(PostDataOf(k), "text")
  THEN SomeValue(lookup(PostDataOf(k), "text").chars)
  ELSE IF Present(PostDataOf(k), "params")
  THEN SomeValue(urlencode(NamedPairs(lookup(PostDataOf(k), "params"))))
  ELSE NoValue

(***************************************************************************)
(* C17: the request body of a parsed exchange is absent when postData is   *)
(* absent; otherwise postData.text verbatim when text is present;          *)
(* otherwise the body reconstructed from postData.params when params is    *)
(* present; otherwise absent.                                              *)
(***************************************************************************)
C17_BodyResolutionOrder ==
  ParseReturned =>
    \A k \in 1..Len(exchanges) : exchanges[k].request_body = ExpectedBody(k)

(***************************************************************************)
(* C18: when postData.text is absent and postData.params is present the    *)
(* body is the URL-encoding of the params' name/value pairs in array       *)
(* order, one pair for each param that has a name.                         *)
(***************************************************************************)
C18_ParamsFallbackEncoding ==
  ParseReturned =>
    \A k \in 1..Len(exchanges) :
      (~Present(PostDataOf(k), "text") /\ Present(PostDataOf(k), "params")) =>
        exchanges[k].request_body =
          SomeValue(urlencode(NamedPairs(lookup(PostDataOf(k), "params"))))

\* the pattern list the caller supplied, the defaults when none was supplied
SuppliedPatterns ==
  IF cookie_patterns.given THEN cookie_patterns.list
  ELSE DEFAULT_SESSION_COOKIE_PATTERNS

\* the header-name list the caller supplied, the defaults when none was
SuppliedHeaders ==
  IF auth_headers.given THEN auth_headers.list ELSE DEFAULT_AUTH_HEADERS

(***************************************************************************)
(* C19: whenever a caller supplies a cookie-pattern list or an auth-header *)
(* list, matching uses exactly the supplied list and none of the default   *)
(* entries; the defaults are used only when no list is supplied.           *)
(***************************************************************************)
C19_SuppliedListsOverrideDefaults ==
  op = "detect_auth_mechanism" =>
    ret = TableMechanism(flow, SuppliedPatterns, SuppliedHeaders)

\* the two exchanges carry the same name/value pairs
SameCookieSet(a, b) ==
  {a.request_cookies[k] : k \in 1..Len(a.request_cookies)}
    = {b.request_cookies[k] : k \in 1..Len(b.request_cookies)}

IdentifyCalled == op = "_identify_session"

(***************************************************************************)
(* C20: two exchanges with the same cookie set, in whatever order the      *)
(* cookies are listed, and the same patterns get the same session key      *)
(* whenever at least one cookie matches.                                   *)
(***************************************************************************)
C20_SameCookieSetSameKey ==
  (/\ IdentifyCalled
   /\ SameCookieSet(exchanges[1], exchanges[2])
   /\ CarriesSessionCookie(exchanges[1], cookie_patterns.list))
    => session_keys[1] = session_keys[2]

(***************************************************************************)
(* C20 (amended): two exchanges with the same cookies listed in the same   *)
(* order and the same patterns get the same session key whenever at least  *)
(* one cookie matches, whatever the uuid4 outcomes of the two calls.       *)
(***************************************************************************)
C20_SameCookieListSameKey ==
  (/\ IdentifyCalled
   /\ exchanges[1].request_cookies = exchanges[2].request_cookies
   /\ CarriesSessionCookie(exchanges[1], cookie_patterns.list))
    => session_keys[1] = session_keys[2]

\* two exchanges with the cookies lang, Sid in that order, identified
\* under the patterns LANG, auth: both get the value of lang
C20_Witness ==
  /\ IdentifyCalled
  /\ exchanges[1].request_cookies =
       <<Cookie(NameLang, ValueS2), Cookie(NameSid, ValueS1)>>
  /\ exchanges[2].request_cookies = exchanges[1].request_cookies
  /\ exchanges[1].timestamp # exchanges[2].timestamp
  /\ CarriesSessionCookie(exchanges[1], cookie_patterns.list)
  /\ session_keys = <<ValueS2, ValueS2>>

(***************************************************************************)
(* C21: every flow returned by reconstruct_flows has auth_mechanism NONE,  *)
(* whatever cookies and headers its exchanges carry; a mechanism other     *)
(* than NONE appears only on the new flow returned by update_flow_auth.    *)
(***************************************************************************)
C21_ReconstructedFlowsUnclassified ==
  /\ \A g \in 1..Len(flows) : flows[g].auth_mechanism = "none"
  /\ \A g \in 1..Len(updated_flows) :
       /\ updated_flows[g].session_id = flows[g].session_id
       /\ updated_flows[g].auth_mechanism = DefaultMechanism(flows[g])

\* a reconstructed flow with a session cookie and an auth header is NONE;
\* the flow update_flow_auth returned for it is MIXED
C21_Witness ==
  /\ pc \in {"dispatch", "done"}
  /\ \E g \in 1..Len(flows) :
       /\ CarriesSessionCookie(flows[g].exchanges[1],
                               DEFAULT_SESSION_COOKIE_PATTERNS)
       /\ CarriesAuthHeader(flows[g].exchanges[1], DEFAULT_AUTH_HEADERS)
       /\ flows[g].auth_mechanism = "none"
       /\ updated_flows[g].auth_mechanism = "mixed"

(***************************************************************************)
(* C22: build_short_circuit_result takes the flow's first exchange as      *)
(* representative: endpoint and http_method are its URL and method and it  *)
(* is the finding's exchange; for a flow without exchanges the endpoint is *)
(* "unknown", the method GET and the finding's exchange a placeholder with *)
(* method GET, URL "unknown" and no headers.  In both cases endpoint and   *)
(* method are those of the finding's exchange.                             *)
(***************************************************************************)
C22_FirstExchangeIsRepresentative ==
  op = "build_short_circuit_result" =>
    /\ flow.exchanges # <<>> =>
         /\ ret.endpoint = flow.exchanges[1].request_url
         /\ ret.http_method = flow.exchanges[1].request_method
         /\ ret.findings[1].exchange = flow.exchanges[1]
    /\ flow.exchanges = <<>> =>
         /\ ret.endpoint = "unknown"
         /\ ret.http_method = "GET"
         /\ ret.findings[1].exchange.request_method = "GET"
         /\ ret.findings[1].exchange.request_url = "unknown"
         /\ ret.findings[1].exchange.request_headers = <<>>
    /\ ret.endpoint = ret.findings[1].exchange.request_url
    /\ ret.http_method = ret.findings[1].exchange.request_method

\* a flow whose first exchange is GET /b and whose last is POST /a
C22_Witness ==
  /\ op = "build_short_circuit_result"
  /\ Len(flow.exchanges) = 3
  /\ flow.exchanges[1].request_url = "/b"
  /\ flow.exchanges[1].request_method = "GET"
  /\ flow.exchanges[3].request_url = "/a"
  /\ flow.exchanges[3].request_method = "POST"
  /\ ret.endpoint = "/b"
  /\ ret.http_method = "GET"

(***************************************************************************)
(* C23: for every flow that detect_auth_mechanism classifies as            *)
(* HEADER_ONLY, with the auth header on any exchange of the flow, the      *)
(* CSRF-011 finding of build_short_circuit_result has evidence that names  *)
(* an auth header; the generic evidence is never produced for it.          *)
(***************************************************************************)
C23_HeaderOnlyEvidenceNamesHeader ==
  (op = "build_short_circuit_result" /\ DefaultMechanism(flow) = "header_only")
    => ret.findings[1].evidence # GENERIC_EVIDENCE

\* <<j, k>>: the k-th request header equals the j-th default auth header
\* name ignoring case
EvidenceMatches(request_headers) ==
  {jk \in (1..Len(DEFAULT_AUTH_HEADERS)) \X (1..Len(request_headers)) :
     lower(request_headers[jk[2]].name) = lower(DEFAULT_AUTH_HEADERS[jk[1]])}

\* the matches ordered by auth header name first, request header second
MatchBefore(a, b) == a[1] < b[1] \/ (a[1] = b[1] /\ a[2] < b[2])

NthMatch(request_headers, n) ==
  CHOOSE jk \in EvidenceMatches(request_headers) :
    Cardinality({o \in EvidenceMatches(request_headers) : MatchBefore(o, jk)})
      = n - 1

\* the value as shown: at most 50 characters, "..." after a cut
ShownValue(value) ==
  IF Len(value) <= 50 THEN value
  ELSE [i \in 1..53 |-> IF i <= 50 THEN value[i] ELSE "."]

\* the entry of one match
EvidenceEntry(request_headers, k) ==
  request_headers[k].name \o <<":", " ">>
    \o ShownValue(request_headers[k].value)

RECURSIVE ExpectedEvidenceUpto(_, _)
\* the first n entries, "; " between them
ExpectedEvidenceUpto(request_headers, n) ==
  IF n = 0 THEN <<>>
  ELSE (IF n = 1 THEN <<>>
        ELSE ExpectedEvidenceUpto(request_headers, n - 1) \o <<";", " ">>)
       \o EvidenceEntry(request_headers, NthMatch(request_headers, n)[2])

ExpectedEvidence(f) ==
  IF f.exchanges = <<>> \/ EvidenceMatches(f.exchanges[1].request_headers) = {}
  THEN GENERIC_EVIDENCE
  ELSE ExpectedEvidenceUpto(
         f.exchanges[1].request_headers,
         Cardinality(EvidenceMatches(f.exchanges[1].request_headers)))

(***************************************************************************)
(* C24: the evidence of the CSRF-011 finding is built from the             *)
(* representative exchange only: for each auth header name in list order   *)
(* every request header whose name equals it ignoring case contributes     *)
(* name, ": " and value, a value longer than 50 characters cut to its      *)
(* first 50 followed by "..."; the entries are joined with "; "; with no   *)
(* entry the evidence is the generic text.                                 *)
(***************************************************************************)
C24_EvidenceFromRepresentative ==
  op = "build_short_circuit_result" =>
    ret.findings[1].evidence = ExpectedEvidence(flow)

\* the representative carries authorization (51 characters) and
\* Authorization (50 characters); a later exchange carries other headers
C24_Witness ==
  /\ op = "build_short_circuit_result"
  /\ Len(flow.exchanges) >= 2
  /\ flow.exchanges[1].request_headers =
       <<Header(NameAuthorizationLower, ValueLong),
         Header(NameAuthorization, ValueAtLimit)>>
  /\ flow.exchanges[2].request_headers =
       <<Header(NameXApiKey, ValueK), Header(NameAuthorization, ValueBearer)>>
  /\ ret.findings[1].evidence =
       NameAuthorizationLower \o <<":", " ">> \o SubSeq(ValueLong, 1, 50)
         \o <<".", ".", ".">> \o <<";", " ">>
         \o NameAuthorization \o <<":", " ">> \o ValueAtLimit

\* the orders in which n exchanges can be listed: permutations of 1..n
ExchangeOrders(n) ==
  {p \in [1..n -> 1..n] : \A i, j \in 1..n : p[i] = p[j] => i = j}

\* the flow with its exchanges rearranged by p
Permuted(f, p) ==
  [f EXCEPT !.exchanges = [i \in 1..Len(f.exchanges) |-> f.exchanges[p[i]]]]

\* the mechanism found by inspecting every exchange of the flow
FullScanMechanism(f, cp, ah) ==
  LET patterns == or_default(cp, DEFAULT_SESSION_COOKIE_PATTERNS)
      headers == or_default(ah, DEFAULT_AUTH_HEADERS)
      cookieAt == {k \in 1..Len(f.exchanges) :
                     has_session_cookie(f.exchanges[k], patterns)}
      headerAt == {k \in 1..Len(f.exchanges) :
                     has_auth_header(f.exchanges[k], headers)}
  IN  IF cookieAt # {} /\ headerAt # {} THEN "mixed"
      ELSE IF cookieAt # {} THEN "cookie"
      ELSE IF headerAt # {} THEN "header_only"
      ELSE "none"

(***************************************************************************)
(* C25: the result of detect_auth_mechanism is the same for every          *)
(* permutation of the flow's exchanges, and equals the result of a scan    *)
(* that inspects every exchange without the early exit.                    *)
(***************************************************************************)
C25_DetectionOrderIrrelevant ==
  op = "detect_auth_mechanism" =>
    /\ \A p \in ExchangeOrders(Len(flow.exchanges)) :
         detect_auth_mechanism(Permuted(flow, p), cookie_patterns, auth_headers)
           = ret
    /\ ret = FullScanMechanism(flow, cookie_patterns, auth_headers)

\* cookie on the first exchange, auth header on the second, so the scan
\* leaves before the third, which carries neither
C25_Witness ==
  /\ op = "detect_auth_mechanism"
  /\ ret = "mixed"
  /\ Len(flow.exchanges) = 3
  /\ flow.exchanges[1].request_cookies # <<>>
  /\ flow.exchanges[1].request_headers = <<>>
  /\ flow.exchanges[2].request_cookies = <<>>
  /\ flow.exchanges[2].request_headers # <<>>
  /\ flow.exchanges[3].request_cookies = <<>>
  /\ flow.exchanges[3].request_headers = <<>>

(***************************************************************************)
(* C26: reconstruct_flows, update_flow_auth (with detect_auth_mechanism)   *)
(* and build_short_circuit_result leave their inputs unchanged: through    *)
(* the whole sequence of calls the input exchange list keeps its elements  *)
(* and their order, the reconstructed flows keep their exchange sequence   *)
(* and auth_mechanism once returned, and so do the classified flows.       *)
(***************************************************************************)
C26_InputsUnchanged ==
  [][/\ exchanges' = exchanges
     /\ pc # "parsed" => flows' = flows
     /\ pc = "dispatch" => updated_flows' = updated_flows]_vars

\* a finished run on a list given latest-first: the one flow lists the
\* exchanges earliest-first and was short-circuited, the input list and
\* the reconstructed flow are as they were
C26_Witness ==
  /\ pc = "done"
  /\ Len(exchanges) = 2
  /\ exchanges[1].timestamp.t > exchanges[2].timestamp.t
  /\ Len(flows) = 1
  /\ flows[1].exchanges = <<exchanges[2], exchanges[1]>>
  /\ flows[1].auth_mechanism = "none"
  /\ updated_flows[1].auth_mechanism = "header_only"
  /\ Len(short_circuit_calls) = 1

\* the header array and the cookie array of the document's first entry
\* (empty when the request has none)
HeaderArray ==
  LET request == lookup(entries_of(har_file)[1], "request")
  IN  IF has_key(request, "headers") THEN lookup(request, "headers").items
      ELSE <<>>

CookieArray ==
  LET request == lookup(entries_of(har_file)[1], "request")
  IN  IF has_key(request, "cookies") THEN lookup(request, "cookies").items
      ELSE <<>>

\* the name of an array item, <<>> when it has none
ItemName(item) ==
  IF has_key(item, "name") THEN lookup(item, "name").chars ELSE <<>>

\* the values of the items called `name`, in array order
ValuesOf(array, name) ==
  LET occurrences == SelectSeq(array, LAMBDA item : ItemName(item) = name)
  IN  [i \in 1..Len(occurrences) |-> lookup(occurrences[i], "value").chars]

ExtractReturned == ParseReturned /\ Len(exchanges) = 1

(***************************************************************************)
(* C27: header extraction maps a HAR header array to a name-to-value       *)
(* mapping with the case of each name preserved: a name that occurs once   *)
(* maps to its value, a name that occurs k > 1 times maps to its k values  *)
(* joined with ", " in array order; names that differ only in case stay    *)
(* separate keys.                                                          *)
(***************************************************************************)
C27_HeadersJoinedPerName ==
  ExtractReturned =>
    LET headers == exchanges[1].request_headers
    IN  /\ {headers[k].name : k \in 1..Len(headers)}
             = {ItemName(HeaderArray[i]) : i \in 1..Len(HeaderArray)}
        /\ \A k, l \in 1..Len(headers) :
             headers[k].name = headers[l].name => k = l
        /\ \A k \in 1..Len(headers) :
             headers[k].value
               = join(<<",", " ">>, ValuesOf(HeaderArray, headers[k].name))

\* the array A: 1, a: 1, A: 2 gives A -> "1, 2" and a -> "1"
C27_Witness ==
  /\ ExtractReturned
  /\ HeaderArray = <<NameValue(<<"A">>, <<"1">>), NameValue(<<"a">>, <<"1">>),
                     NameValue(<<"A">>, <<"2">>)>>
  /\ exchanges[1].request_headers =
       <<Header(<<"A">>, <<"1", ",", " ", "2">>), Header(<<"a">>, <<"1">>)>>

(***************************************************************************)
(* C28: cookie extraction maps a HAR cookie array to a name-to-value       *)
(* mapping whose keys are exactly the non-empty names of the array: an     *)
(* entry with an empty or missing name is dropped, every entry with a      *)
(* non-empty name is represented.                                          *)
(***************************************************************************)
C28_CookieKeysAreNonEmptyNames ==
  ExtractReturned =>
    LET cookies == exchanges[1].request_cookies
    IN  /\ {cookies[k].name : k \in 1..Len(cookies)}
             = {ItemName(CookieArray[i]) : i \in 1..Len(CookieArray)} \ {<<>>}
        /\ \A k, l \in 1..Len(cookies) :
             cookies[k].name = cookies[l].name => k = l

\* an item with an empty name, one without a name and one called c: the
\* mapping has the key c only
C28_Witness ==
  /\ ExtractReturned
  /\ CookieArray = <<NameValue(<<>>, <<"1">>),
                     PyDict(<<Pair("value", PyStr(<<"1">>))>>),
                     NameValue(<<"c">>, <<"2">>)>>
  /\ exchanges[1].request_cookies = <<Cookie(<<"c">>, <<"2">>)>>

\* the session key of the flow came from a matching cookie
KeyFromCookie(f) ==
  \E k \in 1..Len(f.exchanges) :
    CarriesSessionCookie(f.exchanges[k], DEFAULT_SESSION_COOKIE_PATTERNS)

(***************************************************************************)
(* C29: when flows are produced by reconstruct_flows and classified by     *)
(* update_flow_auth with the same cookie patterns, a flow whose session    *)
(* key came from a matching cookie is classified COOKIE or MIXED, and      *)
(* every flow classified HEADER_ONLY or NONE consists of exactly one       *)
(* exchange filed under a fallback key.                                    *)
(***************************************************************************)
C29_StagesAgreeOnSessionCookie ==
  pc \in {"dispatch", "done"} =>
    \A g \in 1..Len(flows) :
      /\ KeyFromCookie(flows[g])
           => updated_flows[g].auth_mechanism \in {"cookie", "mixed"}
      /\ updated_flows[g].auth_mechanism \in {"header_only", "none"}
           => /\ Len(flows[g].exchanges) = 1
              /\ ~KeyFromCookie(flows[g])

(***************************************************************************)
(* C30: update_flow_auth is idempotent and ignores any earlier             *)
(* classification: the returned flow depends only on the exchanges and the *)
(* supplied lists, not on the input's auth_mechanism, and applying         *)
(* update_flow_auth to the returned flow returns an equal flow.            *)
(***************************************************************************)
C30_UpdateFlowAuthIdempotent ==
  op = "update_flow_auth" =>
    /\ update_flow_auth(ret, cookie_patterns, auth_headers) = ret
    /\ \A mech \in AuthMechanism :
         update_flow_auth([flow EXCEPT !.auth_mechanism = mech],
                          cookie_patterns, auth_headers) = ret

\* a flow classified MIXED beforehand whose exchanges carry neither a
\* session cookie nor an auth header is returned as NONE
C30_Witness ==
  /\ op = "update_flow_auth"
  /\ flow.auth_mechanism = "mixed"
  /\ Len(flow.exchanges) = 2
  /\ ret.auth_mechanism = "none"

====
